---- MODULE Spec2Model ----
(***************************************************************************)
(* Stroke capture, surface switching and persistence of the annotation     *)
(* layer: DrawingCanvas (src/components/DrawingCanvas.tsx),                *)
(* InlineBibleAnnotation (src/components/VoiceSession.tsx, second half)    *)
(* and annotationStorage (src/unnamed/part_001).                           *)
(*                                                                         *)
(* Everything runs on the UI thread: one action is one event handler (or   *)
(* one store operation reaching the front of the IndexedDB queue) together *)
(* with the re-render and the effects it triggers.                         *)
(***************************************************************************)
EXTENDS Integers, Sequences, FiniteSets, Bags, TLC

\* ------------------------------------------------------------------ bounds
MaxPoints  == 3      \* longest point buffer explored
MaxPaths   == 2      \* most paths in a Path Store explored
MaxQueue   == 3      \* most store operations in flight
MaxTime    == 1300   \* the clock stops advancing here
MaxTouches == 2      \* simultaneous touch contacts
MaxListeners == 2    \* touchstart listeners of active renders on one canvas
MaxCallbacks == 2    \* animation-frame callbacks pending at once
MaxSegments == 3     \* segments an incremental paint adds to or a clear leaves
MaxLate == 50        \* a timer callback runs at most this long after it is due
MaxLoadFrames == 1   \* loadPaths callbacks waiting for one animation frame
MaxImages == 1       \* images of the initialData effect loading at once
MaxTimers == 3       \* setTimeout callbacks of handleTouchEnd pending at once
MaxTouchEnds == 5    \* touchend listeners of active renders on one canvas

\* ------------------------------------------------------- program constants
DoubleTapMaxMs == 300    \* now - lastPenDown < 300
DoubleTapMinMs == 50     \* now - lastPenDown > 50
TouchResetMs   == 100    \* setTimeout(..., 100) of handleTouchEnd
MAX_EXPAND     == 2000
DefaultSize    == 2      \* sizeRef = useRef(2)
DefaultPressure == 5     \* 0.5, in tenths
ContentHeight  == 10     \* the contentHeight prop: height of the verse content

StartTimes == {1000}     \* Date.now() when the component is constructed
TickSteps  == {50}       \* granularity of the clock, in ms

Tools  == {"pen", "marker", "highlighter", "eraser"}
Colors == {"#000000", "#ef4444"}
Keys   == {"gen:1:chinese", "gen:2:chinese"}

\* `${bookId}:${chapter}` of a key `${bookId}:${chapter}:${panelId}`
OldId(k) == IF k = "gen:1:chinese" THEN "gen:1" ELSE "gen:2"
Ids    == Keys \cup {OldId(k) : k \in Keys}

\* ------------------------------------------------------- serialized strings
\* A string handed to onChange / kept in savedPaths / stored as canvasData:
\* '' or the JSON text of an array of paths. A record written by something else
\* may hold the JSON text of a value that is no array (ObjStr, as '{"a":1}'),
\* a data:image URL (ImageStr) or a text that is neither and that JSON.parse
\* rejects (BadStr).
\* A JSON text of paths is kept as the sequence of its path objects, each the
\* tuple of its member values in the order JSON.stringify emits them (tool,
\* color, size, points), a point being the tuple (x, y, pressure, tiltX, tiltY).
EmptyStr == [kind |-> "empty", val |-> <<>>]
BadStr == [kind |-> "bad", val |-> <<>>]
ObjStr == [kind |-> "object", val |-> <<>>]
ImageStr == [kind |-> "image", val |-> <<>>]

\* The value JSON.parse yields for ObjStr, as pathsRef.current holds it: an
\* object without length that cannot be iterated. It is wrapped in a tuple so
\* that it compares with path sequences.
ParsedObject == <<[a |-> 1]>>
\* for (const path of paths) and [...paths] work
Iterable(paths) == paths # ParsedObject

RECURSIVE stringifyPoints(_)
stringifyPoints(pts) ==
  IF Len(pts) = 0 THEN <<>>
  ELSE <<<<pts[1].x, pts[1].y, pts[1].pressure, pts[1].tiltX, pts[1].tiltY>>>>
         \o stringifyPoints(Tail(pts))

RECURSIVE stringifyPaths(_)
stringifyPaths(ps) ==
  IF Len(ps) = 0 THEN <<>>
  ELSE <<<<ps[1].tool, ps[1].color, ps[1].size, stringifyPoints(ps[1].points)>>>>
         \o stringifyPaths(Tail(ps))

\* JSON.stringify(pathsRef.current)
JSONstringify(ps) ==
  IF Iterable(ps) THEN [kind |-> "json", val |-> stringifyPaths(ps)] ELSE ObjStr

RECURSIVE parsePoints(_)
parsePoints(ts) ==
  IF Len(ts) = 0 THEN <<>>
  ELSE <<[x |-> ts[1][1], y |-> ts[1][2], pressure |-> ts[1][3],
          tiltX |-> ts[1][4], tiltY |-> ts[1][5]]>>
         \o parsePoints(Tail(ts))

\* a parser that yields the array back to front
RECURSIVE parsePathsReversed(_)
parsePathsReversed(ts) ==
  IF Len(ts) = 0 THEN <<>>
  ELSE parsePathsReversed(Tail(ts))
         \o <<[tool |-> ts[1][1], color |-> ts[1][2], size |-> ts[1][3],
                points |-> parsePoints(ts[1][4])]>>

RECURSIVE parsePaths(_)
parsePaths(ts) ==
  IF Len(ts) = 0 THEN <<>>
  ELSE <<[tool |-> ts[1][1], color |-> ts[1][2], size |-> ts[1][3],
          points |-> parsePoints(ts[1][4])]>>
         \o parsePaths(Tail(ts))
\* a JS string is truthy iff it is not ''
Truthy(s) == s.kind # "empty"
\* JSON.parse(s) returns: it throws for '', for a data URL and for BadStr
Parses(s) == s.kind \in {"json", "object"}
\* Array.isArray(JSON.parse(s)), false when JSON.parse throws
ParsesToArray(s) == s.kind = "json"
\* s.startsWith('data:image')
IsImageURL(s) == s.kind = "image"
\* JSON.parse(s) for a string it accepts
JSONparse(s) == IF s.kind = "object" THEN ParsedObject ELSE parsePaths(s.val)
\* getData: '' for an empty array, the JSON text otherwise
getData(ps) ==
  IF Iterable(ps) /\ Len(ps) = 0 THEN EmptyStr ELSE JSONstringify(ps)

NoRecord == [present |-> FALSE, data |-> EmptyStr, height |-> 0]
Record(d, h) == [present |-> TRUE, data |-> d, height |-> h]

\* --------------------------------------------------------- Point Normalizer
\* The canvas rectangle starts at the client origin and the contacts explored
\* lie on the diagonal clientX = clientY: a contact "at x" is at (x, x).
\* Pressures are in tenths, tilts in tenths of a degree.
\* Math.cos of an azimuthAngle given in multiples of pi
CosPi(n) == IF n % 2 = 0 THEN 1 ELSE -1
\* getPointFromTouch: x, y relative to the canvas; pressure = force || 0.5;
\* tiltX = (touch.tiltX || touch.azimuthAngle) ? cos(azimuthAngle) * 45 : 0;
\* tiltY = (touch.tiltY || touch.altitudeAngle)
\*           ? (1 - altitudeAngle / (pi / 2)) * 45 : 0.
\* A Touch has no tiltX / tiltY member. azimuthAngle is in multiples of pi,
\* altitudeAngle in multiples of pi / 4; 0 is also the value of a touch that
\* reports no angle.
getPointFromTouch(x, force, azimuthAngle, altitudeAngle) ==
  [x |-> x, y |-> x,
   pressure |-> IF force # 0 THEN force ELSE DefaultPressure,
   tiltX |-> IF azimuthAngle # 0 THEN CosPi(azimuthAngle) * 450 ELSE 0,
   tiltY |-> IF altitudeAngle # 0 THEN 450 - 225 * altitudeAngle ELSE 0]
\* getPointFromPointer: pressure = e.pressure || 0.5, tiltX = e.tiltX || 0,
\* tiltY = e.tiltY || 0
getPointFromPointer(x, pressure, tiltX, tiltY) ==
  [x |-> x, y |-> x,
   pressure |-> IF pressure # 0 THEN pressure ELSE DefaultPressure,
   tiltX |-> tiltX, tiltY |-> tiltY]
\* handleTouchStart: touchType === 'stylus' || force > 0
IsPenTouch(touchType, force) == touchType = "stylus" \/ force > 0

VARIABLES
  \* DrawingCanvas refs
  mounted,            \* canvasRef.current of the parent is set
  treeDown,           \* an effect has thrown and React has unmounted the root
  pathsRef, currentPointsRef, isDrawingRef,
  toolRef, colorRef, sizeRef,
  lastPenDownRef, usingTouchRef,
  timers,             \* the pending touch-flag resets: a bag of due times,
                      \* one copy for each setTimeout call
  \* capturing touch listeners of the canvas element: the cleanup of the
  \* listener effect calls removeEventListener without the capture flag, which
  \* leaves them in place, so they pile up in the order they were added
  activeTouchStarts,  \* touchstart / touchmove listeners of renders in writing mode
  firstTouchEnd,      \* onChange prop closed over by the oldest touchend
                      \* listener of a render in writing mode: it is the one
                      \* that ends a stroke
  laterTouchEnds,     \* the touchend listeners of later renders in writing
                      \* mode, which are attached as well
  firstTouchCancel,   \* canvasHeight closed over by the oldest touchcancel
                      \* listener: it is the one that cancels a stroke
  detached,           \* the canvas elements React has removed while contacts
                      \* were down on them: the contacts keep the element as
                      \* their target and its listeners keep their refs
  \* painting
  raster,             \* segments painted on the canvas and not cleared since
  needsRedrawRef,
  rafIdRef,           \* the request rafIdRef names is still pending
  rafPending,         \* renderLoop callbacks requested and not yet run
  loadFrames,         \* the loadPaths callbacks the [isActive] effect has
                      \* requested for the next animation frame, oldest first,
                      \* each with the number of renderLoop callbacks ahead of it
  imgLoads,           \* images of the initialData effect that have not loaded yet
  \* InlineBibleAnnotation
  annotationKey, savedPaths, extraHeight, isActive, toolState,
  isDragging,         \* the document listeners of an expand-handle drag are on
  dragStartRef,       \* dragStartRef.current.height; clientY is measured from
                      \* dragStartRef.current.y
  \* annotationStorage / IndexedDB
  db,                 \* id -> record
  queue,              \* operations issued and not yet applied, oldest first
  saveResult,         \* how the promise of the last settled saveAnnotation ended
  \* environment
  now,                \* Date.now()
  touchIds,           \* touch contacts currently on the surface
  \* history
  strokeSrc,          \* channel, contact and tool values at the start of the
                      \* stroke in progress, and whether the last save that
                      \* had settled by then was rejected
  stylus,             \* the last stylus-down given to startDrawing
  scen                \* progress of the save-A / switch / switch-back scenario
                      \* and of the save / reload / load scenario

instanceVars == <<mounted, treeDown, pathsRef, currentPointsRef, isDrawingRef,
                  toolRef, colorRef, sizeRef, lastPenDownRef, usingTouchRef,
                  timers, activeTouchStarts, firstTouchEnd, laterTouchEnds>>
canvasVars == <<detached, instanceVars>>
surfaceVars == <<annotationKey, savedPaths, extraHeight, isActive, toolState,
                 isDragging, dragStartRef>>
storeVars == <<db, queue, saveResult>>
envVars == <<now, touchIds>>
histVars == <<strokeSrc, stylus, scen>>
paintVars == <<raster, needsRedrawRef, rafIdRef, rafPending, loadFrames,
               firstTouchCancel, imgLoads>>
vars == <<canvasVars, paintVars, surfaceVars, storeVars, envVars, histVars>>


\* ------------------------------------------------------------------ history
NoStroke == [chan |-> "none", id |-> 0, tool |-> "pen", color |-> "#000000",
             size |-> DefaultSize, afterRejection |-> FALSE]
NoScen == [phase |-> "none", key |-> "", data |-> EmptyStr, got |-> NoRecord,
           after |-> <<>>]
\* the last stylus-class down the canvas instance gave to startDrawing.
\* at: when it happened (0: never); gap: time since the one before (-1: none);
\* toggled: it switched the tool
NoStylus == [at |-> 0, gap |-> -1, toggled |-> FALSE]

\* an onChange prop as a closure: () => {}, or the handleCanvasChange of a
\* render with its key and height
NoClosure == [set |-> FALSE, key |-> "", height |-> 0]
Closure(k, h) == [set |-> TRUE, key |-> k, height |-> h]

\* ------------------------------------------------------- store operations
PutOp(k, d, h) == [op |-> "put", key |-> k, data |-> d, height |-> h]
GetOp(k)       == [op |-> "get", key |-> k, data |-> EmptyStr, height |-> 0]
GetOldOp(k)    == [op |-> "getOld", key |-> k, data |-> EmptyStr, height |-> 0]
DeleteOp(k)    == [op |-> "delete", key |-> k, data |-> EmptyStr, height |-> 0]
WriteOps       == {"put", "delete"}

\* isWritingMode prop of DrawingCanvas: true in the active branch of the render
isWritingMode == isActive

\* ----------------------------------------------------------- Paint Engine
\* totalHeight = contentHeight + extraHeight, the canvasHeight prop
totalHeight(h) == ContentHeight + h

\* a contact at (x, x) lies on a canvas of extra height h
OnCanvas(x, h) == x >= 0 /\ x < totalHeight(h)

\* a width that takes every pressure as it is
lineWidthRaw(to, size) ==
  size * (10 + to.pressure * 18)

\* lineWidth = size * (0.1 + p * 1.8) with p = to.pressure > 0 ? to.pressure : 0.5,
\* in hundredths of a pixel (pressures are in tenths)
lineWidth(to, size) ==
  LET p == IF to.pressure > 0 THEN to.pressure ELSE DefaultPressure
  IN size * (10 + p * 18)

Abs(n) == IF n < 0 THEN -n ELSE n

\* the factor 1 * 1800 of a width without tilt
TiltUnit == 1800

\* a tilt factor that is applied for every tool
tiltFactorOfAnyTool(to, tool) ==
  IF Abs(to.tiltX) > 150 \/ Abs(to.tiltY) > 150
  THEN TiltUnit + Abs(to.tiltX) + Abs(to.tiltY)
  ELSE TiltUnit

\* tiltFactor = 1 + (|tiltX| + |tiltY|) / 180, applied for the pen when one of
\* the tilts is above 15 degrees; times 1800 (tilts are in tenths of a degree)
tiltFactor(to, tool) ==
  IF tool = "pen" /\ (Abs(to.tiltX) > 150 \/ Abs(to.tiltY) > 150)
  THEN TiltUnit + Abs(to.tiltX) + Abs(to.tiltY)
  ELSE TiltUnit

\* ctx.lineWidth per tool, in hundredths of a pixel times TiltUnit
ctxLineWidth(to, tool, size) ==
  CASE tool = "eraser" -> size * 4 * 100 * TiltUnit
    [] tool = "highlighter" -> size * 5 * 100 * TiltUnit
    [] tool = "marker" ->
         (lineWidth(to, size) * tiltFactor(to, tool) * 5) \div 2
    [] OTHER -> lineWidth(to, size) * tiltFactor(to, tool)

\* The drawing state of a 2D context that nothing has changed:
\* globalCompositeOperation 'source-over', globalAlpha 1 (in hundredths).
\* Setting canvas.width / canvas.height resets the context to it.
DefaultCtx == [composite |-> "source-over", alpha |-> 100]

\* ctx.globalCompositeOperation / ctx.globalAlpha as the switch on the tool
\* leaves them, starting from the state c
ctxForTool(c, tool) ==
  CASE tool = "eraser" -> [c EXCEPT !.composite = "destination-out"]
    [] tool = "highlighter" -> [composite |-> "multiply", alpha |-> 25]
    [] tool = "marker" -> [c EXCEPT !.alpha = 70]
    [] OTHER -> c

\* ctx.restore(): back to the state that ctx.save() pushed
ctxRestore(saved, current) == saved

\* one call of drawSegment: save, set the state for the tool, stroke, restore
drawSegment(from, to, tool, color, size) ==
  LET painting == ctxForTool(DefaultCtx, tool)
  IN [from |-> from, to |-> to, tool |-> tool, color |-> color, size |-> size,
      width |-> ctxLineWidth(to, tool, size),
      composite |-> painting.composite, alpha |-> painting.alpha,
      after |-> ctxRestore(DefaultCtx, painting)]

\* the segments of one path, in point order
RECURSIVE PathSegments(_, _)
PathSegments(path, i) ==
  IF i > Len(path.points) THEN <<>>
  ELSE <<drawSegment(path.points[i - 1], path.points[i], path.tool,
                     path.color, path.size)>> \o PathSegments(path, i + 1)

\* the loop of fullRedraw over pathsRef: paths of fewer than 2 points are
\* skipped; over a pathsRef that cannot be iterated it throws at once
RECURSIVE Replay(_)
Replay(paths) ==
  IF ~Iterable(paths) \/ Len(paths) = 0 THEN <<>>
  ELSE (IF Len(paths[1].points) < 2 THEN <<>> ELSE PathSegments(paths[1], 2))
         \o Replay(Tail(paths))

\* drawSegment strokes the curve moveTo(from), quadraticCurveTo(from, mid): it
\* runs from `from` to the midpoint of from and to. Twice the lowest and the
\* highest y of that curve, twice its highest x, and twice the x of each of
\* its two ends:
Top2(seg) ==
  IF seg.from.y <= seg.to.y THEN 2 * seg.from.y ELSE seg.from.y + seg.to.y
Bottom2(seg) ==
  IF seg.from.y <= seg.to.y THEN seg.from.y + seg.to.y ELSE 2 * seg.from.y
Right2(seg) ==
  IF seg.from.x <= seg.to.x THEN seg.from.x + seg.to.x ELSE 2 * seg.from.x
Ends2(seg) ==
  {[x |-> 2 * seg.from.x, y |-> 2 * seg.from.y],
   [x |-> seg.from.x + seg.to.x, y |-> seg.from.y + seg.to.y]}

\* ctx.drawImage(img, 0, 0, rect.width, rect.height) on a canvas of extra
\* height h: the image covers the canvas
drawImage(h) == [image |-> totalHeight(h)]
IsImage(seg) == "image" \in DOMAIN seg

\* one pixel in the unit of seg.width
InkUnit == 100 * TiltUnit

\* The stroke has lineCap 'round': its outline reaches half the line width
\* beyond the curve on every side. Twice the distance by which the outline
\* reaches above the lower edge of a canvas of height canvasH, below the rows
\* that clearRect(0, 0, width, clearH) clears (0: below the upper edge of the
\* canvas) and to the right of the left edge of the canvas, in the unit of
\* seg.width. The canvas is wider than every x explored.
ReachAbove2(seg, canvasH) ==
  2 * canvasH * InkUnit - (Top2(seg) * InkUnit - seg.width)
ReachBelow2(seg, clearH) ==
  Bottom2(seg) * InkUnit + seg.width - 2 * clearH * InkUnit
ReachRight2(seg) ==
  Right2(seg) * InkUnit + seg.width

\* The 2D context does not define how a rasteriser fills a pixel that the
\* outline of a stroke covers in part (anti-aliasing, the flattening of the
\* curve and of the caps, the alpha of the tool). An outline that reaches more
\* than half a pixel into a row covers the centre line of the row and leaves
\* ink in it; one that ends more than half a pixel before the row leaves none;
\* within half a pixel of the edge of the row either happens. Twice that half
\* pixel:
EdgeBand2 == InkUnit

\* The segment leaves ink in the rows from clearH to canvasH, whatever the
\* rasteriser: the curve lies right of the left edge of the canvas and its
\* outline reaches more than half a pixel into those rows from both sides, or
\* such an outline is that of the cap around one end of the curve.
InkedIn(seg, clearH, canvasH) ==
  \/ /\ \A e \in Ends2(seg) : e.x >= 0
     /\ ReachBelow2(seg, clearH) > EdgeBand2
     /\ ReachAbove2(seg, canvasH) > EdgeBand2
  \/ \E e \in Ends2(seg) :
       /\ e.x >= 0
       /\ e.y * InkUnit + seg.width - 2 * clearH * InkUnit > EdgeBand2
       /\ 2 * canvasH * InkUnit - (e.y * InkUnit - seg.width) > EdgeBand2

\* The outline of the segment comes within half a pixel of the rows from
\* clearH to canvasH, or reaches them across the left edge of the canvas only:
\* whether ink is left in them depends on the rasteriser. An outline that ends
\* more than half a pixel above, below or left of them leaves none.
FaintIn(seg, clearH, canvasH) ==
  /\ ~InkedIn(seg, clearH, canvasH)
  /\ ReachBelow2(seg, clearH) >= -EdgeBand2
  /\ ReachAbove2(seg, canvasH) >= -EdgeBand2
  /\ ReachRight2(seg) >= -EdgeBand2

\* the segment leaves ink on a canvas of height canvasH, whatever the rasteriser
Inked(seg, canvasH) ==
  IsImage(seg) \/ InkedIn(seg, 0, canvasH)

\* whether the segment leaves ink on the canvas depends on the rasteriser
Faint(seg, canvasH) ==
  ~IsImage(seg) /\ FaintIn(seg, 0, canvasH)

\* the rasters that painting the segments of rs in order can leave on a wiped
\* canvas of height canvasH: every segment that leaves ink for certain, and
\* any of the faint ones
RECURSIVE Visible(_, _)
Visible(rs, canvasH) ==
  IF Len(rs) = 0 THEN {<<>>}
  ELSE LET rest == Visible(Tail(rs), canvasH)
           kept == {<<rs[1]>> \o r : r \in rest}
       IN IF Inked(rs[1], canvasH) THEN kept
          ELSE IF Faint(rs[1], canvasH) THEN kept \cup rest
          ELSE rest

\* clearRect(0, 0, width, clearH) on a canvas of height canvasH leaves the ink
\* below clearH: a segment keeps ink for certain when it left ink for certain
\* in the rows from clearH on
Survives(seg, clearH, canvasH) ==
  /\ clearH < canvasH
  /\ IF IsImage(seg) THEN seg.image > clearH
     ELSE InkedIn(seg, clearH, canvasH)

\* whether ink of the segment is left after the clear depends on the
\* rasteriser
FaintlySurvives(seg, clearH, canvasH) ==
  /\ clearH < canvasH
  /\ ~IsImage(seg)
  /\ FaintIn(seg, clearH, canvasH)

\* the rasters that clearRect(0, 0, width, clearH) can leave of rs
RECURSIVE clearRect(_, _, _)
clearRect(rs, clearH, canvasH) ==
  IF Len(rs) = 0 THEN {<<>>}
  ELSE LET rest == clearRect(Tail(rs), clearH, canvasH)
           kept == {<<rs[1]>> \o r : r \in rest}
       IN IF Survives(rs[1], clearH, canvasH) THEN kept
          ELSE IF FaintlySurvives(rs[1], clearH, canvasH) THEN kept \cup rest
          ELSE rest

\* the rasters that fullRedraw with canvasHeight prop clearH can leave on a
\* canvas of height canvasH that shows rs
fullRedrawOn(rs, clearH, canvasH, paths) ==
  {c \o v : c \in clearRect(rs, clearH, canvasH),
            v \in Visible(Replay(paths), canvasH)}

\* the rasters that the replay of paths can leave on a wiped canvas of extra
\* height h
ReplayOn(paths, h) == Visible(Replay(paths), totalHeight(h))

\* the rasters that fullRedraw of a render whose canvasHeight prop is
\* totalHeight(h) can leave on the canvas as it is
fullRedraw(rs, h, paths) ==
  fullRedrawOn(rs, totalHeight(h), totalHeight(extraHeight), paths)

\* the loadPaths callbacks when n renderLoop callbacks are left: the request
\* that cancelAnimationFrame(rafIdRef.current) removes is the latest one, which
\* is ahead of a loadPaths callback only when every renderLoop callback is
AheadAtMost(loads, n) ==
  [i \in 1..Len(loads) |->
     [loads[i] EXCEPT !.ahead = IF @ > n THEN n ELSE @]]

\* cancelAnimationFrame(rafIdRef.current)
cancelAnimationFrame ==
  /\ rafIdRef' = FALSE
  /\ rafPending' = IF rafIdRef THEN rafPending - 1 ELSE rafPending
  /\ loadFrames' = AheadAtMost(loadFrames, rafPending')

\* ------------------------------------------------------------ Stroke Session
\* the double-tap window of startDrawing
InDoubleTapWindow(t, last) ==
  t - last < DoubleTapMaxMs /\ t - last > DoubleTapMinMs

\* a toggle between the pen and the marker
ToggleToolToMarker(t) == IF t = "marker" THEN "pen" ELSE "marker"

\* the tool a double-tap switches to
ToggleTool(t) == IF t = "eraser" THEN "pen" ELSE "eraser"

\* the refs startDrawing reads and writes
StrokeRefs ==
  [tool |-> toolRef, last |-> lastPenDownRef, drawing |-> isDrawingRef,
   points |-> currentPointsRef, needsRedraw |-> needsRedrawRef,
   rafId |-> rafIdRef, pending |-> rafPending]

\* startDrawing of a render whose isWritingMode is `writing`, called at time t
startDrawing(s, writing, point, isPen, t) ==
  IF ~writing THEN s
  ELSE IF isPen /\ InDoubleTapWindow(t, s.last)
  THEN [s EXCEPT !.tool = ToggleTool(s.tool), !.last = 0]
  ELSE [s EXCEPT !.last = IF isPen THEN t ELSE s.last,
                 !.drawing = TRUE,
                 !.points = <<point>>,
                 !.needsRedraw = FALSE,
                 !.rafId = TRUE,
                 !.pending = s.pending + 1]

\* one touchstart runs the listeners of all n renders in writing mode, oldest
\* first; each of them calls its startDrawing
RECURSIVE startDrawingBy(_, _, _, _, _)
startDrawingBy(n, s, point, isPen, t) ==
  IF n = 0 THEN s
  ELSE startDrawingBy(n - 1, startDrawing(s, TRUE, point, isPen, t), point,
                      isPen, t)

SetStrokeRefs(s) ==
  /\ toolRef' = s.tool
  /\ lastPenDownRef' = s.last
  /\ isDrawingRef' = s.drawing
  /\ currentPointsRef' = s.points
  /\ needsRedrawRef' = s.needsRedraw
  /\ rafIdRef' = s.rafId
  /\ s.pending <= MaxCallbacks
  /\ rafPending' = s.pending
  /\ loadFrames' = loadFrames

\* history kept by the handlers that call startDrawing n times in writing mode
StartHistory(chan, id, n, point, isPen) ==
  /\ strokeSrc' =
       IF n > 0 /\ startDrawingBy(n, [StrokeRefs EXCEPT !.drawing = FALSE],
                                  point, isPen, now).drawing
       THEN [chan |-> chan, id |-> id,
             tool |-> startDrawingBy(n, StrokeRefs, point, isPen, now).tool,
             color |-> colorRef, size |-> sizeRef,
             afterRejection |-> saveResult = "rejected"]
       ELSE strokeSrc
  /\ stylus' = IF n > 0 /\ isPen
                THEN [at |-> now,
                      gap |-> IF stylus.at = 0 THEN -1 ELSE now - stylus.at,
                      toggled |-> InDoubleTapWindow(now, lastPenDownRef)]
                ELSE stylus
  /\ UNCHANGED scen

\* the points pushed by n calls of continueDrawing(points)
RECURSIVE Pushed(_, _)
Pushed(n, points) == IF n = 0 THEN <<>> ELSE points \o Pushed(n - 1, points)

\* continueDrawing, called by each of n listeners for the same event
continueDrawing(n, points) ==
  IF ~isDrawingRef THEN UNCHANGED <<currentPointsRef, needsRedrawRef>>
  ELSE /\ Len(currentPointsRef) + n * Len(points) <= MaxPoints
       /\ currentPointsRef' = currentPointsRef \o Pushed(n, points)
       /\ needsRedrawRef' = TRUE

\* handleCanvasChange of the render with key k and height h:
\* setSavedPaths(data); saveAnnotation(bookId, chapter, data, extraHeight, panelId)
handleCanvasChange(k, h, data) ==
  /\ Len(queue) < MaxQueue
  /\ savedPaths' = data
  /\ queue' = Append(queue, PutOp(k, data, h))

\* the onChange prop of the current render: handleCanvasChange, closed over the
\* key and the height, in the active branch, () => {} in the passive one
onChange ==
  IF isActive THEN Closure(annotationKey, extraHeight) ELSE NoClosure

\* a call of an onChange prop
CallOnChange(change, data) ==
  IF change.set THEN handleCanvasChange(change.key, change.height, data)
  ELSE UNCHANGED <<savedPaths, queue>>

\* the raster after onChange(data): setSavedPaths(data) re-renders, and when the
\* string changed the initialData effect parses it and replays the store
RasterAfterChange(change, data, paths) ==
  IF change.set /\ data # savedPaths /\ Truthy(data)
  THEN fullRedraw(raster, extraHeight, paths)
  ELSE {raster}

completedPath(pts) ==
  [tool |-> toolRef, color |-> colorRef, size |-> sizeRef, points |-> pts]

\* [...pathsRef.current, completedPath] throws when pathsRef cannot be iterated:
\* endDrawing stops there, after it has left Drawing and cancelled the frame
endDrawingThrows ==
  isDrawingRef /\ Len(currentPointsRef) >= 2 /\ ~Iterable(pathsRef)

\* an endDrawing that commits a buffer of any length
endDrawingAnyLength(change) ==
  IF ~isDrawingRef
  THEN UNCHANGED <<isDrawingRef, currentPointsRef, pathsRef, savedPaths, queue,
                   rafIdRef, rafPending, loadFrames, raster>>
  ELSE /\ isDrawingRef' = FALSE
       /\ cancelAnimationFrame
       /\ IF ~Iterable(pathsRef)
          THEN UNCHANGED <<currentPointsRef, pathsRef, savedPaths, queue, raster>>
          ELSE /\ currentPointsRef' = <<>>
               /\ Len(pathsRef) < MaxPaths
               /\ pathsRef' = Append(pathsRef, completedPath(currentPointsRef))
               /\ CallOnChange(change, JSONstringify(pathsRef'))
               /\ raster' \in RasterAfterChange(change, JSONstringify(pathsRef'),
                                              pathsRef')

\* endDrawing of a render whose onChange prop is `change`
endDrawing(change) ==
  IF ~isDrawingRef
  THEN UNCHANGED <<isDrawingRef, currentPointsRef, pathsRef, savedPaths, queue,
                   rafIdRef, rafPending, loadFrames, raster>>
  ELSE /\ isDrawingRef' = FALSE
       /\ cancelAnimationFrame
       /\ IF endDrawingThrows
          THEN UNCHANGED <<currentPointsRef, pathsRef, savedPaths, queue, raster>>
          ELSE /\ currentPointsRef' = <<>>
               /\ IF Len(currentPointsRef) >= 2
                  THEN /\ Len(pathsRef) < MaxPaths
                       /\ pathsRef' = Append(pathsRef,
                                             completedPath(currentPointsRef))
                       /\ CallOnChange(change, JSONstringify(pathsRef'))
                       /\ raster' \in RasterAfterChange(change,
                                                      JSONstringify(pathsRef'),
                                                      pathsRef')
                  ELSE UNCHANGED <<pathsRef, savedPaths, queue, raster>>

\* a cancel that keeps the buffered points
cancelStrokeKeepingBuffer(h) ==
  /\ isDrawingRef' = FALSE
  /\ cancelAnimationFrame
  /\ currentPointsRef' = currentPointsRef
  /\ raster' \in fullRedraw(raster, h, pathsRef)
  /\ \A c \in clearRect(raster, totalHeight(h), totalHeight(extraHeight)) :
       Len(c) <= MaxSegments

\* the body shared by handleTouchCancel and handlePointerCancel, in a render
\* whose canvasHeight prop is totalHeight(h)
cancelStroke(h) ==
  /\ isDrawingRef' = FALSE
  /\ cancelAnimationFrame
  /\ currentPointsRef' = <<>>
  /\ raster' \in fullRedraw(raster, h, pathsRef)
  /\ \A c \in clearRect(raster, totalHeight(h), totalHeight(extraHeight)) :
       Len(c) <= MaxSegments

\* the timers after n calls of setTimeout for the time due
RECURSIVE Armed(_, _, _)
Armed(pending, due, n) ==
  IF n = 0 THEN pending ELSE Armed(pending (+) SetToBag({due}), due, n - 1)

\* ------------------------------------------- canvases that React removed
\* The touch events of a contact go to the element the contact went down on,
\* also after React has removed that element, and the capturing listeners are
\* still on it. Of such an instance the model keeps the contacts and, while a
\* stroke is in progress on it under a writing-mode listener, the refs its
\* listeners read; its timers and animation frames touch nothing that shows.
NoInstance(ids) ==
  [ids |-> ids, isDrawingRef |-> FALSE, currentPointsRef |-> <<>>,
   pathsRef |-> <<>>, toolRef |-> "pen", colorRef |-> "#000000",
   sizeRef |-> DefaultSize, activeTouchStarts |-> 0,
   firstTouchEnd |-> NoClosure]

\* the contacts that are down on removed canvases / on the current canvas
RemovedTouches == UNION {d.ids : d \in detached}
OwnTouches == touchIds \ RemovedTouches

\* contacts are down on the current canvas only while it exists, and every
\* removed canvas the model keeps has a contact down
TouchTargets ==
  /\ OwnTouches # {} => mounted
  /\ RemovedTouches \subseteq touchIds
  /\ \A d \in detached : d.ids # {}

\* the removed canvas that contact id went down on
RemovedWith(id) == CHOOSE d \in detached : id \in d.ids

\* the current instance at the moment React removes it, its store and buffer
\* being paths1 and pts1
Instance(paths1, pts1) ==
  IF isDrawingRef /\ firstTouchEnd.set
  THEN [ids |-> OwnTouches, isDrawingRef |-> TRUE, currentPointsRef |-> pts1,
        pathsRef |-> paths1, toolRef |-> toolRef, colorRef |-> colorRef,
        sizeRef |-> sizeRef, activeTouchStarts |-> activeTouchStarts,
        firstTouchEnd |-> firstTouchEnd]
  ELSE NoInstance(OwnTouches)

\* the removed canvases after contact id has left d: a touchend and a
\* touchcancel both leave the instance without a stroke
Lifted(d, id) ==
  (detached \ {d})
    \cup (IF d.ids = {id} THEN {} ELSE {NoInstance(d.ids \ {id})})

\* endDrawing on the removed instance d commits its buffer
RemovedCommits(d) ==
  d.isDrawingRef /\ Len(d.currentPointsRef) >= 2 /\ Iterable(d.pathsRef)

\* JSON.stringify(pathsRef.current) after that commit
RemovedData(d) ==
  JSONstringify(Append(d.pathsRef,
                       [tool |-> d.toolRef, color |-> d.colorRef,
                        size |-> d.sizeRef, points |-> d.currentPointsRef]))

\* ------------------------------------------------- the render of a surface
\* the passive branch renders a canvas iff
\* savedPaths && savedPaths !== '[]' && savedPaths !== ''
ShowsCanvas(sp) == Truthy(sp) /\ sp # JSONstringify(<<>>)

\* Math.max(0, Math.min(MAX_EXPAND, h))
ClampHeight(h) ==
  IF h < 0 THEN 0 ELSE IF h > MAX_EXPAND THEN MAX_EXPAND ELSE h

\* The re-render after a handler of InlineBibleAnnotation and the effects it
\* triggers in DrawingCanvas. paths1 and pts1 are the canvas refs as the handler
\* left them, sp1 / act1 / ts1 the new savedPaths, isActive and toolState.
\*  - the canvas element exists in the active branch, and in the passive one
\*    when there is something to show; the instance (and its refs) survives
\*    when it exists before and after, otherwise the refs start afresh;
\*  - the initialData effect runs on mount and when savedPaths changed;
\*  - the initialData effect loads a savedPaths that parses to an array and
\*    starts loading one that is a data:image URL;
\*  - the [isActive] effect parses savedPaths on activation and requests an
\*    animation frame that will hand the result to loadPaths;
\*  - the tool-sync effect pushes toolState when isActive or toolState changed;
\*  - a changed canvasHeight resizes the canvas, which wipes it, and replays;
\*  - the listener effect runs again when a handler changed (isWritingMode,
\*    canvasHeight or onChange; the passive onChange is new in every render),
\*    and its cleanup cancels the pending animation frame.
\*  - an instance that goes while contacts are down on its canvas joins the
\*    removed canvases.
\* rs1 holds the rasters the handler can have left, det1 the removed canvases
\* as it left them.
RenderAndEffects(det1, paths1, pts1, rs1, sp1, h1, act1, ts1) ==
  LET shows    == act1 \/ ShowsCanvas(sp1)
      resized  == h1 # extraHeight
      \* the canvasHeight effect calls setupCanvasSize, whose fullRedraw
      \* throws when the store cannot be iterated: an error in an effect,
      \* with no error boundary above, makes React unmount the root
      throws   == mounted /\ shows /\ resized /\ ~Iterable(paths1)
      m1       == shows /\ ~throws
      persists == mounted /\ m1
      changed  == ~mounted \/ sp1 # savedPaths
      initLoad == Truthy(sp1) /\ ParsesToArray(sp1) /\ changed
      initImage == Truthy(sp1) /\ IsImageURL(sp1) /\ changed
      actLoad  == act1 /\ ~isActive /\ Truthy(sp1) /\ Parses(sp1)
      sync     == act1 /\ (~isActive \/ ts1 # toolState)
      relisten == ~act1 \/ act1 # isActive \/ resized
      sized    == IF resized THEN ReplayOn(paths1, h1) ELSE rs1
  IN /\ mounted' = m1
     /\ treeDown' = throws
     /\ detached' = IF mounted /\ ~m1 /\ OwnTouches # {}
                    THEN det1 \cup {Instance(paths1, pts1)}
                    ELSE det1
     /\ pathsRef' = IF m1 /\ initLoad THEN JSONparse(sp1)
                    ELSE IF persists THEN paths1 ELSE <<>>
     /\ currentPointsRef' = IF persists THEN pts1 ELSE <<>>
     /\ isDrawingRef' = IF persists THEN isDrawingRef ELSE FALSE
     /\ toolRef'  = IF m1 /\ sync THEN ts1.tool
                    ELSE IF persists THEN toolRef ELSE "pen"
     /\ colorRef' = IF m1 /\ sync THEN ts1.color
                    ELSE IF persists THEN colorRef ELSE "#000000"
     /\ sizeRef'  = IF m1 /\ sync THEN ts1.size
                    ELSE IF persists THEN sizeRef ELSE DefaultSize
     /\ lastPenDownRef' = IF persists THEN lastPenDownRef ELSE 0
     /\ usingTouchRef' = IF persists THEN usingTouchRef ELSE FALSE
     /\ timers' = IF persists THEN timers ELSE EmptyBag
     /\ activeTouchStarts' =
          IF ~m1 THEN 0
          ELSE IF ~persists THEN (IF act1 THEN 1 ELSE 0)
          ELSE IF act1 /\ ~isActive THEN activeTouchStarts + 1
          ELSE activeTouchStarts
     /\ firstTouchEnd' =
          IF ~m1 THEN NoClosure
          ELSE IF act1 /\ (~persists \/ ~firstTouchEnd.set)
          THEN Closure(annotationKey, h1)
          ELSE IF persists THEN firstTouchEnd ELSE NoClosure
     /\ laterTouchEnds' =
          IF ~persists THEN 0
          ELSE IF act1 /\ firstTouchEnd.set /\ (~isActive \/ resized)
          THEN laterTouchEnds + 1
          ELSE laterTouchEnds
     /\ laterTouchEnds' < MaxTouchEnds
     /\ strokeSrc' = IF persists THEN strokeSrc ELSE NoStroke
     /\ stylus' = IF persists THEN stylus ELSE NoStylus
     /\ raster' \in IF ~m1 THEN {<<>>}
                    ELSE IF ~persists THEN ReplayOn(pathsRef', h1)
                    ELSE IF initLoad
                    THEN UNION {fullRedrawOn(r, totalHeight(h1),
                                             totalHeight(h1), pathsRef') :
                                  r \in sized}
                    ELSE sized
     /\ needsRedrawRef' = IF persists THEN needsRedrawRef ELSE FALSE
     /\ rafIdRef' = IF persists /\ ~relisten THEN rafIdRef ELSE FALSE
     /\ rafPending' = IF ~persists THEN 0
                      ELSE IF relisten /\ rafIdRef THEN rafPending - 1
                      ELSE rafPending
     /\ loadFrames' =
          AheadAtMost(loadFrames, rafPending')
            \o (IF actLoad
                THEN <<[paths |-> JSONparse(sp1), ahead |-> rafPending']>>
                ELSE <<>>)
     /\ Len(loadFrames') <= MaxLoadFrames
     /\ imgLoads' = (IF persists THEN imgLoads ELSE 0)
                      + (IF m1 /\ initImage THEN 1 ELSE 0)
     /\ imgLoads' <= MaxImages
     /\ firstTouchCancel' = IF ~m1 THEN 0
                            ELSE IF ~persists THEN h1 ELSE firstTouchCancel

\* the re-render after a handler that leaves the removed canvases alone
Rerender(paths1, pts1, rs1, sp1, h1, act1, ts1) ==
  RenderAndEffects(detached, paths1, pts1, rs1, sp1, h1, act1, ts1)

\* --------------------------------------------------- touch event handlers
\* A touch event runs every capturing listener the canvas element has
\* collected; those of renders outside writing mode return at once.
handleTouchStart(id, touchType, force, x, azimuthAngle, altitudeAngle) ==
  /\ mounted
  /\ OnCanvas(x, extraHeight)
  /\ id \notin touchIds
  /\ Cardinality(touchIds) < MaxTouches
  /\ touchIds' = touchIds \cup {id}
  /\ LET single == Cardinality(touchIds') = 1
         n      == IF single THEN activeTouchStarts ELSE 0
         isPen  == IsPenTouch(touchType, force)
         point  == getPointFromTouch(x, force, azimuthAngle, altitudeAngle)
     IN /\ usingTouchRef' = IF n > 0 THEN TRUE ELSE usingTouchRef
        /\ SetStrokeRefs(startDrawingBy(n, StrokeRefs, point, isPen, now))
        /\ StartHistory("touch", id, n, point, isPen)
  /\ UNCHANGED <<detached, mounted, treeDown, pathsRef, colorRef, sizeRef, timers, activeTouchStarts,
                 firstTouchEnd, laterTouchEnds, now>>
  /\ UNCHANGED <<surfaceVars, storeVars, raster, firstTouchCancel, imgLoads>>

\* A touchmove goes to the canvas its contact went down on, the current one or
\* a removed one; e.touches holds every contact on the screen. The listeners
\* left on a removed canvas pass the guards of a stroke in progress and call
\* getPointFromTouch, which reads canvasRef.current!.getBoundingClientRect():
\* React has set canvasRef.current to null, the handler throws before
\* continueDrawing and the buffer of the removed instance stays as it is.
handleTouchMove(points) ==
  /\ touchIds # {}
  /\ IF (OwnTouches # {} /\ activeTouchStarts > 0 /\ isDrawingRef
           /\ Cardinality(touchIds) = 1)
     THEN continueDrawing(activeTouchStarts, points)
     ELSE UNCHANGED <<currentPointsRef, needsRedrawRef>>
  /\ UNCHANGED <<detached, mounted, treeDown, pathsRef, isDrawingRef, toolRef, colorRef, sizeRef,
                 lastPenDownRef, usingTouchRef, timers, activeTouchStarts,
                 firstTouchEnd, laterTouchEnds>>
  /\ UNCHANGED <<raster, rafIdRef, rafPending, loadFrames, firstTouchCancel, imgLoads>>
  /\ UNCHANGED <<surfaceVars, storeVars, envVars, strokeSrc, stylus, scen>>

\* A touchend on the current canvas runs its listeners. One on a removed
\* canvas runs those left on that element: the oldest one ends the stroke of
\* the removed instance and commits it through the onChange it closed over,
\* handleCanvasChange, whose setSavedPaths renders the surface again unless the
\* root is gone or the value is the one the state holds.
handleTouchEnd(id) ==
  /\ id \in touchIds
  /\ touchIds' = touchIds \ {id}
  /\ IF id \in OwnTouches
     THEN /\ IF ~firstTouchEnd.set
             THEN UNCHANGED <<isDrawingRef, currentPointsRef, pathsRef,
                              savedPaths, queue, timers, rafIdRef, rafPending,
                              loadFrames, raster>>
             ELSE /\ endDrawing(firstTouchEnd)
                  \* every listener sets a timer, except the one whose
                  \* endDrawing throws; those of later renders find the
                  \* stroke ended
                  /\ timers' = Armed(timers, now + TouchResetMs,
                                     IF endDrawingThrows THEN laterTouchEnds
                                     ELSE 1 + laterTouchEnds)
                  /\ BagCardinality(timers') <= MaxTimers
          /\ strokeSrc' = IF isDrawingRef' THEN strokeSrc ELSE NoStroke
          /\ UNCHANGED <<detached, mounted, treeDown, toolRef, colorRef, sizeRef,
                         lastPenDownRef, usingTouchRef, activeTouchStarts,
                         firstTouchEnd, laterTouchEnds>>
          /\ UNCHANGED <<stylus, needsRedrawRef, firstTouchCancel, imgLoads>>
     ELSE LET d    == RemovedWith(id)
              det1 == Lifted(d, id)
              data == RemovedData(d)
          IN IF ~RemovedCommits(d)
             THEN /\ detached' = det1
                  /\ UNCHANGED <<instanceVars, paintVars, savedPaths, queue,
                                 strokeSrc, stylus>>
             ELSE /\ Len(d.pathsRef) < MaxPaths
                  /\ Len(queue) < MaxQueue
                  /\ queue' = Append(queue, PutOp(d.firstTouchEnd.key, data,
                                                  d.firstTouchEnd.height))
                  /\ savedPaths' = IF treeDown THEN savedPaths ELSE data
                  /\ IF treeDown \/ data = savedPaths
                     THEN /\ detached' = det1
                          /\ UNCHANGED <<instanceVars, paintVars, strokeSrc,
                                         stylus>>
                     ELSE RenderAndEffects(det1, pathsRef, currentPointsRef,
                                           {raster}, data, extraHeight,
                                           isActive, toolState)
  /\ UNCHANGED <<annotationKey, extraHeight, isActive, toolState, isDragging,
                 dragStartRef, db, saveResult, now, scen>>

\* A touchcancel on the current canvas, or on a removed one, where it ends the
\* stroke of the removed instance and repaints a canvas nobody sees.
handleTouchCancel(id) ==
  /\ id \in touchIds
  /\ touchIds' = touchIds \ {id}
  /\ IF id \in OwnTouches
     THEN /\ IF ~isDrawingRef
             THEN UNCHANGED <<isDrawingRef, currentPointsRef, usingTouchRef,
                              raster, rafIdRef, rafPending, loadFrames>>
             ELSE /\ cancelStroke(firstTouchCancel)
                  \* a fullRedraw that throws ends the handler before this line
                  /\ usingTouchRef' = IF Iterable(pathsRef) THEN FALSE
                                      ELSE usingTouchRef
          /\ strokeSrc' = IF isDrawingRef' THEN strokeSrc ELSE NoStroke
          /\ UNCHANGED detached
     ELSE /\ detached' = Lifted(RemovedWith(id), id)
          /\ UNCHANGED <<isDrawingRef, currentPointsRef, usingTouchRef, raster,
                         rafIdRef, rafPending, loadFrames, strokeSrc>>
  /\ UNCHANGED <<mounted, treeDown, pathsRef, toolRef, colorRef, sizeRef,
                 lastPenDownRef, timers, activeTouchStarts, firstTouchEnd, laterTouchEnds, now>>
  /\ UNCHANGED <<surfaceVars, storeVars, stylus, scen, needsRedrawRef,
                 firstTouchCancel, imgLoads>>

\* the setTimeout callback of handleTouchEnd
touchResetTimer(due) ==
  /\ BagIn(due, timers)
  /\ now >= due
  /\ timers' = timers (-) SetToBag({due})
  /\ usingTouchRef' = FALSE
  /\ UNCHANGED <<detached, mounted, treeDown, pathsRef, currentPointsRef, isDrawingRef, toolRef,
                 colorRef, sizeRef, lastPenDownRef, activeTouchStarts,
                 firstTouchEnd, laterTouchEnds>>
  /\ UNCHANGED <<surfaceVars, storeVars, envVars, strokeSrc, stylus, scen,
                 paintVars>>

\* ------------------------------------------------- pointer event handlers
\* The pointer listeners do not capture, so the cleanup removes them and only
\* those of the current render run.
handlePointerDown(pointerType, isPrimary, x, pressure, tiltX, tiltY) ==
  /\ mounted
  /\ OnCanvas(x, extraHeight)
  /\ LET called == /\ isWritingMode
                   /\ ~usingTouchRef
                   /\ ~(pointerType # "pen" /\ ~isPrimary)
         n      == IF called THEN 1 ELSE 0
         isPen  == pointerType = "pen"
         point  == getPointFromPointer(x, pressure, tiltX, tiltY)
     IN /\ SetStrokeRefs(IF called
                         THEN startDrawing(StrokeRefs, isWritingMode, point,
                                           isPen, now)
                         ELSE StrokeRefs)
        /\ StartHistory("pointer", 0, n, point, isPen)
  /\ UNCHANGED <<detached, mounted, treeDown, pathsRef, colorRef, sizeRef, usingTouchRef, timers,
                 activeTouchStarts, firstTouchEnd, laterTouchEnds>>
  /\ UNCHANGED <<surfaceVars, storeVars, envVars, raster, firstTouchCancel, imgLoads>>

handlePointerMove(points) ==
  /\ mounted
  /\ IF ~isDrawingRef \/ usingTouchRef
     THEN UNCHANGED <<currentPointsRef, needsRedrawRef>>
     ELSE continueDrawing(1, points)
  /\ UNCHANGED <<detached, mounted, treeDown, pathsRef, isDrawingRef, toolRef, colorRef, sizeRef,
                 lastPenDownRef, usingTouchRef, timers, activeTouchStarts,
                 firstTouchEnd, laterTouchEnds>>
  /\ UNCHANGED <<raster, rafIdRef, rafPending, loadFrames, firstTouchCancel, imgLoads>>
  /\ UNCHANGED <<surfaceVars, storeVars, envVars, strokeSrc, stylus, scen>>

handlePointerUp ==
  /\ mounted
  /\ IF ~isDrawingRef \/ usingTouchRef
     THEN UNCHANGED <<isDrawingRef, currentPointsRef, pathsRef, savedPaths, queue,
                      rafIdRef, rafPending, loadFrames, raster>>
     ELSE endDrawing(onChange)
  /\ strokeSrc' = IF isDrawingRef' THEN strokeSrc ELSE NoStroke
  /\ UNCHANGED <<detached, mounted, treeDown, toolRef, colorRef, sizeRef, lastPenDownRef,
                 usingTouchRef, timers, activeTouchStarts, firstTouchEnd, laterTouchEnds>>
  /\ UNCHANGED <<annotationKey, extraHeight, isActive, toolState, isDragging,
                 dragStartRef, db, saveResult, envVars,
                 stylus, scen>>
  /\ UNCHANGED <<needsRedrawRef, firstTouchCancel, imgLoads>>

handlePointerCancel ==
  /\ mounted
  /\ IF ~isDrawingRef
     THEN UNCHANGED <<isDrawingRef, currentPointsRef, raster, rafIdRef,
                      rafPending, loadFrames>>
     ELSE cancelStroke(extraHeight)
  /\ strokeSrc' = IF isDrawingRef' THEN strokeSrc ELSE NoStroke
  /\ UNCHANGED <<detached, mounted, treeDown, pathsRef, toolRef, colorRef, sizeRef, lastPenDownRef,
                 usingTouchRef, timers, activeTouchStarts, firstTouchEnd, laterTouchEnds>>
  /\ UNCHANGED <<surfaceVars, storeVars, envVars, stylus, scen, needsRedrawRef,
                 firstTouchCancel, imgLoads>>

\* the segment renderLoop paints: from the last but one buffered point towards
\* the last one
lastSegment ==
  drawSegment(currentPointsRef[Len(currentPointsRef) - 1],
              currentPointsRef[Len(currentPointsRef)], toolRef, colorRef, sizeRef)

\* the canvas rs after renderLoop has stroked lastSegment
paintLast(rs) ==
  {rs \o v : v \in Visible(<<lastSegment>>, totalHeight(extraHeight))}

\* an animation frame in which every pending callback paints
renderLoopEveryCallback ==
  /\ mounted
  /\ rafPending > 0
  /\ loadFrames = <<>>
  /\ needsRedrawRef' = FALSE
  /\ (needsRedrawRef /\ Len(currentPointsRef) >= 2) => Len(raster) < MaxSegments
  /\ raster' \in
       IF needsRedrawRef /\ Len(currentPointsRef) >= 2
       THEN {raster \o v : v \in Visible([k \in 1..rafPending |-> lastSegment],
                                         totalHeight(extraHeight))}
       ELSE {raster}
  /\ rafIdRef' = isDrawingRef
  /\ rafPending' = IF isDrawingRef THEN rafPending ELSE 0
  /\ UNCHANGED <<canvasVars, firstTouchCancel, imgLoads, loadFrames,
                 surfaceVars, storeVars, envVars, histVars>>

\* One animation frame: the browser runs every pending callback, each of them
\* renderLoop. The first one that finds needsRedrawRef set clears it and paints
\* the last buffered segment; each one requests the next frame while a stroke
\* is in progress.
renderLoop ==
  /\ mounted
  /\ rafPending > 0
  /\ loadFrames = <<>>
  /\ needsRedrawRef' = FALSE
  /\ (needsRedrawRef /\ Len(currentPointsRef) >= 2) => Len(raster) < MaxSegments
  /\ raster' \in
       IF needsRedrawRef /\ Len(currentPointsRef) >= 2
       THEN paintLast(raster)
       ELSE {raster}
  /\ rafIdRef' = isDrawingRef
  /\ rafPending' = IF isDrawingRef THEN rafPending ELSE 0
  /\ UNCHANGED <<canvasVars, firstTouchCancel, imgLoads, loadFrames,
                 surfaceVars, storeVars, envVars, histVars>>

\* the clock. A setTimeout callback runs at its due time or later: the delay is
\* a minimum, so the clock may pass the due time of a pending timer.
Tick ==
  /\ \A due \in BagToSet(timers) : now < due + MaxLate
  /\ \E d \in TickSteps : now + d <= MaxTime /\ now' = now + d
  /\ UNCHANGED <<canvasVars, surfaceVars, storeVars, touchIds, strokeSrc,
                 stylus, scen, paintVars>>


\* ------------------------------------------------------ Surface Controller
\* "A is saved with its paths": the record of the current key holds what the
\* session holds and nothing is in flight
SavedAndSettled ==
  /\ queue = <<>>
  /\ db[annotationKey].present
  /\ Truthy(savedPaths)
  /\ db[annotationKey].data = savedPaths
  /\ mounted /\ ~isDrawingRef
  /\ savedPaths = getData(pathsRef)

\* the effect on [bookId, chapter, panelId]: save the outgoing surface, then load
SwitchEffect(prev, k) ==
  (IF Truthy(savedPaths)
   THEN <<PutOp(prev, savedPaths, extraHeight)>> ELSE <<>>) \o <<GetOp(k)>>

SwitchKey(k) ==
  /\ ~treeDown
  /\ k # annotationKey
  /\ annotationKey' = k
  /\ queue' = queue \o SwitchEffect(annotationKey, k)
  /\ Len(queue') <= MaxQueue
  /\ scen' = IF scen.phase = "away" /\ k = scen.key
             THEN [scen EXCEPT !.phase = "back"]
             ELSE IF SavedAndSettled
             THEN [NoScen EXCEPT !.phase = "away", !.key = annotationKey,
                                 !.data = savedPaths]
             ELSE NoScen
  /\ IF mounted THEN cancelAnimationFrame
     ELSE UNCHANGED <<rafIdRef, rafPending, loadFrames>>
  \* handleCanvasChange is a new function, and so is the touchend listener
  /\ laterTouchEnds' = IF mounted /\ isActive /\ firstTouchEnd.set
                        THEN laterTouchEnds + 1 ELSE laterTouchEnds
  /\ laterTouchEnds' < MaxTouchEnds
  /\ UNCHANGED <<detached, mounted, treeDown, pathsRef, currentPointsRef, isDrawingRef, toolRef,
                 colorRef, sizeRef, lastPenDownRef, usingTouchRef, timers,
                 activeTouchStarts, firstTouchEnd>>
  /\ UNCHANGED <<savedPaths, extraHeight, isActive, toolState, isDragging,
                 dragStartRef, db, saveResult, envVars, strokeSrc, stylus,
                 raster, needsRedrawRef, firstTouchCancel, imgLoads>>

\* an undo that drops the oldest path instead of the newest
UndoOldest ==
  /\ mounted
  /\ IF Iterable(pathsRef) /\ Len(pathsRef) > 0
     THEN /\ pathsRef' = Tail(pathsRef)
          /\ raster' \in fullRedraw(raster, extraHeight, pathsRef')
          /\ CallOnChange(onChange, getData(pathsRef'))
     ELSE UNCHANGED <<pathsRef, savedPaths, queue, raster>>
  /\ UNCHANGED <<detached, mounted, treeDown, currentPointsRef, isDrawingRef, toolRef, colorRef,
                 sizeRef, lastPenDownRef, usingTouchRef, timers,
                 activeTouchStarts, firstTouchEnd, laterTouchEnds>>
  /\ UNCHANGED <<annotationKey, extraHeight, isActive, toolState, isDragging,
                 dragStartRef, db, saveResult, envVars,
                 strokeSrc, stylus, scen>>
  /\ UNCHANGED <<needsRedrawRef, rafIdRef, rafPending, loadFrames, firstTouchCancel, imgLoads>>

\* undo() of the handle: canvasRef.current?.undo(), in either mode; it does
\* nothing without a canvas. onChange is the prop of the current render, the
\* no-op in the passive branch.
Undo ==
  /\ mounted
  /\ IF Iterable(pathsRef) /\ Len(pathsRef) > 0
     THEN /\ pathsRef' = SubSeq(pathsRef, 1, Len(pathsRef) - 1)
          /\ raster' \in fullRedraw(raster, extraHeight, pathsRef')
          /\ CallOnChange(onChange, getData(pathsRef'))
     ELSE UNCHANGED <<pathsRef, savedPaths, queue, raster>>
  /\ UNCHANGED <<detached, mounted, treeDown, currentPointsRef, isDrawingRef, toolRef, colorRef,
                 sizeRef, lastPenDownRef, usingTouchRef, timers,
                 activeTouchStarts, firstTouchEnd, laterTouchEnds>>
  /\ UNCHANGED <<annotationKey, extraHeight, isActive, toolState, isDragging,
                 dragStartRef, db, saveResult, envVars,
                 strokeSrc, stylus, scen>>
  /\ UNCHANGED <<needsRedrawRef, rafIdRef, rafPending, loadFrames, firstTouchCancel, imgLoads>>

\* redraw() of the DrawingCanvas handle: fullRedraw of the current render
redraw ==
  /\ mounted
  /\ raster' \in fullRedraw(raster, extraHeight, pathsRef)
  /\ UNCHANGED <<canvasVars, surfaceVars, storeVars, envVars, histVars,
                 needsRedrawRef, rafIdRef, rafPending, loadFrames, firstTouchCancel, imgLoads>>

\* the ResizeObserver callback after the width of the canvas element changed:
\* setupCanvasSize sets canvas.width, which wipes the canvas, and calls
\* fullRedraw
ResizeObserved ==
  /\ mounted
  /\ raster' \in ReplayOn(pathsRef, extraHeight)
  /\ UNCHANGED <<canvasVars, surfaceVars, storeVars, envVars, histVars,
                 needsRedrawRef, rafIdRef, rafPending, loadFrames,
                 firstTouchCancel, imgLoads>>

\* img.onload of the initialData effect: the image is drawn over the canvas
imgOnload ==
  /\ mounted
  /\ imgLoads > 0
  /\ Len(raster) < MaxSegments
  /\ raster' = Append(raster, drawImage(extraHeight))
  /\ imgLoads' = imgLoads - 1
  /\ UNCHANGED <<canvasVars, surfaceVars, storeVars, envVars, histVars,
                 needsRedrawRef, rafIdRef, rafPending, loadFrames,
                 firstTouchCancel>>

\* the loadPaths callbacks that run before / after the first renderLoop
\* callback of the frame
RECURSIVE LoadsAhead(_, _)
LoadsAhead(loads, first) ==
  IF loads = <<>> THEN <<>>
  ELSE (IF (Head(loads).ahead = 0) = first THEN <<Head(loads)>> ELSE <<>>)
         \o LoadsAhead(Tail(loads), first)

\* loadPaths(paths) of the handle for each of the callbacks: pathsRef.current =
\* paths; fullRedraw(). rss holds the rasters the canvas can show before.
RECURSIVE loadPaths(_, _)
loadPaths(rss, loads) ==
  IF loads = <<>> THEN rss
  ELSE loadPaths(UNION {fullRedraw(r, extraHeight, Head(loads).paths) :
                          r \in rss},
                 Tail(loads))

\* The animation frame after an activation: the browser runs the callbacks in
\* the order they were requested, the renderLoop callbacks as in renderLoop
\* and the callbacks of the [isActive] effect, which call
\* canvasRef.current?.loadPaths(paths) with the paths parsed at activation.
activationFrame ==
  /\ loadFrames # <<>>
  /\ LET renders == mounted /\ rafPending > 0
         paints  == renders /\ needsRedrawRef /\ Len(currentPointsRef) >= 2
         r0      == loadPaths({raster}, LoadsAhead(loadFrames, TRUE))
         r1      == IF paints
                    THEN UNION {paintLast(r) : r \in r0}
                    ELSE r0
     IN /\ paints => \A r \in r0 : Len(r) < MaxSegments
        /\ raster' \in IF mounted
                       THEN loadPaths(r1, LoadsAhead(loadFrames, FALSE))
                       ELSE {raster}
        /\ pathsRef' = IF mounted THEN loadFrames[Len(loadFrames)].paths
                       ELSE pathsRef
        /\ needsRedrawRef' = IF renders THEN FALSE ELSE needsRedrawRef
        /\ rafIdRef' = IF renders THEN isDrawingRef ELSE rafIdRef
        /\ rafPending' = IF isDrawingRef THEN rafPending ELSE 0
        /\ loadFrames' = <<>>
  /\ UNCHANGED <<detached, mounted, treeDown, currentPointsRef, isDrawingRef, toolRef, colorRef,
                 sizeRef, lastPenDownRef, usingTouchRef, timers,
                 activeTouchStarts, firstTouchEnd, laterTouchEnds>>
  /\ UNCHANGED <<surfaceVars, storeVars, envVars, histVars, firstTouchCancel,
                 imgLoads>>

\* clearAll() of the handle, confirmed, in either mode: canvasRef.current?.clear()
\* empties the store and the buffer, replays and calls the onChange prop of the
\* current render with ''; then setSavedPaths(''), setExtraHeight(0) and
\* deleteAnnotation
ClearAll ==
  /\ ~treeDown
  /\ savedPaths' = EmptyStr
  /\ extraHeight' = 0
  /\ queue' = queue
                \o (IF mounted /\ onChange.set
                    THEN <<PutOp(onChange.key, EmptyStr, onChange.height)>>
                    ELSE <<>>)
                \o <<DeleteOp(annotationKey)>>
  /\ Len(queue') <= MaxQueue
  /\ IF mounted
     THEN Rerender(<<>>, <<>>, fullRedraw(raster, extraHeight, <<>>), EmptyStr,
                   0, isActive, toolState)
     ELSE Rerender(pathsRef, currentPointsRef, {raster}, EmptyStr, 0, isActive,
                   toolState)
  /\ UNCHANGED <<annotationKey, isActive, toolState, isDragging, dragStartRef,
                 db, saveResult, envVars,
                 scen>>

\* handleExpandPointerDown on the expand handle, which the active branch
\* renders: the drag starts from the height of this render. A pointerdown
\* during a drag starts it anew from the present height; the document
\* listeners it adds do what those already there do, and the pointerup
\* removes them all.
handleExpandPointerDown ==
  /\ ~treeDown
  /\ isActive
  /\ isDragging' = TRUE
  /\ dragStartRef' = extraHeight
  /\ UNCHANGED <<canvasVars, paintVars, annotationKey, savedPaths, extraHeight,
                 isActive, toolState, storeVars, envVars, histVars>>

\* handleUp, the pointerup listener of the document: the drag is over
handleUp ==
  /\ ~treeDown
  /\ isDragging
  /\ isDragging' = FALSE
  /\ Rerender(pathsRef, currentPointsRef, {raster}, savedPaths, extraHeight,
              isActive, toolState)
  /\ UNCHANGED <<annotationKey, savedPaths, extraHeight, isActive, toolState,
                 dragStartRef, storeVars, envVars, scen>>

\* a drag whose resize wipes the canvas and replays nothing
ExpandDragWithoutReplay(delta) ==
  /\ ~treeDown
  /\ isDragging
  /\ extraHeight' = ClampHeight(dragStartRef + delta)
  /\ IF extraHeight' # extraHeight /\ Truthy(savedPaths)
     THEN /\ Len(queue) < MaxQueue
          /\ queue' = Append(queue, PutOp(annotationKey, savedPaths, extraHeight'))
     ELSE UNCHANGED queue
  /\ IF extraHeight' # extraHeight /\ mounted
     THEN /\ raster' = <<>>
          /\ cancelAnimationFrame
     ELSE UNCHANGED <<raster, rafIdRef, rafPending, loadFrames>>
  /\ UNCHANGED <<canvasVars, annotationKey, savedPaths, isActive, toolState,
                 isDragging, dragStartRef, db, saveResult, envVars, strokeSrc,
                 stylus, scen, needsRedrawRef, firstTouchCancel, imgLoads>>

\* handleMove, the pointermove listener of the document during a drag of the
\* expand handle, at delta pixels below the point where the drag started:
\* setExtraHeight(clamp(dragStartRef.current.height + delta)), and the render
\* with the effect on [extraHeight] when the height changed
ExpandDrag(delta) ==
  /\ ~treeDown
  /\ isDragging
  /\ extraHeight' = ClampHeight(dragStartRef + delta)
  /\ IF extraHeight' # extraHeight
     THEN /\ IF Truthy(savedPaths)
             THEN /\ Len(queue) < MaxQueue
                  /\ queue' = Append(queue, PutOp(annotationKey, savedPaths,
                                                  extraHeight'))
             ELSE UNCHANGED queue
          /\ Rerender(pathsRef, currentPointsRef, {raster}, savedPaths,
                      extraHeight', isActive, toolState)
     ELSE UNCHANGED <<queue, canvasVars, paintVars, strokeSrc, stylus>>
  /\ UNCHANGED <<annotationKey, savedPaths, isActive, toolState, isDragging,
                 dragStartRef, db, saveResult, envVars, scen>>

\* a path given the style of a tool state
RECURSIVE Restyled(_, _)
Restyled(paths, ts) ==
  IF paths = <<>> THEN <<>>
  ELSE <<[Head(paths) EXCEPT !.tool = ts.tool, !.color = ts.color,
                             !.size = ts.size]>> \o Restyled(Tail(paths), ts)

\* a tool change that restyles the committed paths
HostSetToolRestyling(ts) ==
  /\ ~treeDown
  /\ toolState' = ts
  /\ Rerender(Restyled(pathsRef, ts), currentPointsRef, {raster}, savedPaths,
              extraHeight, isActive, ts)
  /\ UNCHANGED <<annotationKey, savedPaths, extraHeight, isActive, isDragging,
                 dragStartRef, storeVars, envVars, scen>>

\* the host renders the surface with the toolState prop ts, changed or not;
\* the sync effect forwards a changed one when active
HostSetTool(ts) ==
  /\ ~treeDown
  /\ toolState' = ts
  /\ Rerender(pathsRef, currentPointsRef, {raster}, savedPaths, extraHeight,
              isActive, ts)
  /\ UNCHANGED <<annotationKey, savedPaths, extraHeight, isActive, isDragging,
                 dragStartRef, storeVars, envVars, scen>>

\* the host renders the surface with the isActive prop b, changed or not
SetActive(b) ==
  /\ ~treeDown
  /\ (b /\ ~isActive /\ mounted) => activeTouchStarts < MaxListeners
  /\ isActive' = b
  /\ Rerender(pathsRef, currentPointsRef, {raster}, savedPaths, extraHeight, b,
              toolState)
  /\ UNCHANGED <<annotationKey, savedPaths, extraHeight, toolState,
                 isDragging, dragStartRef, storeVars,
                 envVars, scen>>

\* ------------------------------------------------------ Persistence Adapter
\* IndexedDB runs transactions on one object store in the order they were
\* created whenever one of them writes; read-only transactions may overtake
\* each other.
MayRun(i) ==
  /\ i \in 1..Len(queue)
  /\ \/ i = 1
     \/ /\ queue[i].op \notin WriteOps
        /\ \A j \in 1..(i - 1) : queue[j].op \notin WriteOps

Without(q, i) == SubSeq(q, 1, i - 1) \o SubSeq(q, i + 1, Len(q))

\* db.put of saveAnnotation
ApplyPut(i) ==
  /\ MayRun(i)
  /\ queue[i].op = "put"
  /\ db' = [db EXCEPT ![queue[i].key] = Record(queue[i].data, queue[i].height)]
  /\ saveResult' = "fulfilled"
  /\ queue' = Without(queue, i)
  /\ UNCHANGED <<canvasVars, surfaceVars, envVars, strokeSrc, stylus, scen,
                 paintVars>>

\* db.delete of deleteAnnotation
ApplyDelete(i) ==
  /\ MayRun(i)
  /\ queue[i].op = "delete"
  /\ db' = [db EXCEPT ![queue[i].key] = NoRecord]
  /\ queue' = Without(queue, i)
  /\ UNCHANGED <<canvasVars, surfaceVars, saveResult, envVars, strokeSrc,
                 stylus, scen, paintVars>>

\* db.delete of deleteAnnotation rejects: the catch logs the error and throws
\* it again; clearAll does not await the promise, the record stays
RejectDelete(i) ==
  /\ MayRun(i)
  /\ queue[i].op = "delete"
  /\ queue' = Without(queue, i)
  /\ UNCHANGED <<canvasVars, surfaceVars, db, saveResult, envVars, strokeSrc,
                 stylus, scen, paintVars>>

\* a saveAnnotation whose catch swallows the error
RejectPutSilently(i) ==
  /\ MayRun(i)
  /\ queue[i].op = "put"
  /\ saveResult' = "fulfilled"
  /\ queue' = Without(queue, i)
  /\ UNCHANGED <<canvasVars, surfaceVars, db, envVars, strokeSrc, stylus, scen,
                 paintVars>>

\* db.put of saveAnnotation rejects (quota, backend error): the catch logs the
\* error and throws it again, so the promise of saveAnnotation rejects; none of
\* its callers awaits or catches it
RejectPut(i) ==
  /\ MayRun(i)
  /\ queue[i].op = "put"
  /\ saveResult' = "rejected"
  /\ queue' = Without(queue, i)
  /\ UNCHANGED <<canvasVars, surfaceVars, db, envVars, strokeSrc, stylus, scen,
                 paintVars>>

\* the first db.get of getAnnotation finds no record: look up the old id
LookupOld(i) ==
  /\ MayRun(i)
  /\ queue[i].op = "get"
  /\ ~db[queue[i].key].present
  /\ queue' = Append(Without(queue, i), GetOldOp(queue[i].key))
  /\ UNCHANGED <<canvasVars, surfaceVars, db, saveResult, envVars, strokeSrc,
                 stylus, scen, paintVars>>

\* a lookup whose second step reads the exact key again
LookupResultExact(o) ==
  db[o.key]

\* what the lookup at the front of the queue returns
LookupResult(o) ==
  IF o.op = "get" THEN db[o.key] ELSE db[OldId(o.key)]

\* A handler that leaves the state of InlineBibleAnnotation as it is: React
\* renders nothing and no effect runs. paths1, pts1 and rs1 are the store, the
\* buffer and the rasters the handler can have left.
NoRender(paths1, pts1, rs1) ==
  /\ pathsRef' = paths1
  /\ currentPointsRef' = pts1
  /\ raster' \in rs1
  /\ UNCHANGED <<detached, mounted, treeDown, isDrawingRef, toolRef, colorRef, sizeRef,
                 lastPenDownRef, usingTouchRef, timers, activeTouchStarts,
                 firstTouchEnd, laterTouchEnds, strokeSrc, stylus,
                 needsRedrawRef, rafIdRef, rafPending, loadFrames, imgLoads,
                 firstTouchCancel>>

\* loadAnnotation continues with the result r of the getAnnotation that is
\* request i. setSavedPaths and setExtraHeight with the values the state
\* already holds render nothing; after the root was unmounted they do nothing
\* and canvasRef.current is null.
loadAnnotation(i, r) ==
  /\ LET sp1     == IF treeDown THEN savedPaths
                    ELSE IF r.present THEN r.data ELSE EmptyStr
         h1      == IF treeDown THEN extraHeight
                    ELSE IF r.present THEN r.height ELSE 0
         loaded  == r.present /\ mounted /\ Truthy(r.data) /\ Parses(r.data)
         cleared == ~r.present /\ mounted
         paths1  == IF loaded THEN JSONparse(r.data)
                    ELSE IF cleared THEN <<>> ELSE pathsRef
         pts1    == IF cleared THEN <<>> ELSE currentPointsRef
         rs1     == IF loaded \/ cleared
                    THEN fullRedraw(raster, extraHeight, paths1) ELSE {raster}
         rest    == Without(queue, i)
     IN /\ savedPaths' = sp1
        /\ extraHeight' = h1
        /\ IF sp1 = savedPaths /\ h1 = extraHeight
           THEN NoRender(paths1, pts1, rs1)
           ELSE Rerender(paths1, pts1, rs1, sp1, h1, isActive, toolState)
        /\ queue' = IF cleared /\ isActive
                    THEN Append(rest, PutOp(annotationKey, EmptyStr, extraHeight))
                    ELSE IF h1 # extraHeight /\ Truthy(sp1)
                    THEN Append(rest, PutOp(annotationKey, sp1, h1))
                    ELSE rest
        /\ scen' = IF scen.phase = "back" /\ queue[i].key = scen.key
                   THEN [scen EXCEPT !.phase = "done", !.got = r,
                                     !.after = pathsRef']
                   ELSE IF scen.phase = "reloaded" /\ queue[i].key = scen.key
                   THEN [scen EXCEPT !.phase = "restored", !.got = r]
                   ELSE scen
  /\ UNCHANGED <<annotationKey, isActive, toolState, isDragging, dragStartRef,
                 db, saveResult, envVars>>

\* getAnnotation returns what it found and loadAnnotation continues
LoadReturn(i) ==
  /\ MayRun(i)
  /\ \/ queue[i].op = "get" /\ db[queue[i].key].present
     \/ queue[i].op = "getOld"
  /\ loadAnnotation(i, LookupResult(queue[i]))

\* a db.get of getAnnotation fails (read error): the catch logs the error and
\* getAnnotation returns null, which loadAnnotation takes for "no record"
RejectGet(i) ==
  /\ MayRun(i)
  /\ queue[i].op \in {"get", "getOld"}
  /\ loadAnnotation(i, NoRecord)


\* ------------------------------------------------------------------- inputs
TouchContacts == 1..MaxTouches
DefaultToolState == [tool |-> "pen", color |-> "#000000", size |-> DefaultSize]

\* one sample, or two coalesced samples, of a touch move
TouchSamples(xs, fs) ==
  {<<getPointFromTouch(x, f, 0, 0)>> : x \in xs, f \in fs}
    \cup {<<getPointFromTouch(x, f, 0, 0), getPointFromTouch(x, f, 0, 0)>> : x \in xs, f \in fs}
\* getCoalescedEvents() of a pointer move, or the event itself
PointerSamples(xs, fs) ==
  {<<getPointFromPointer(x, f, 0, 0)>> : x \in xs, f \in fs}
    \cup {<<getPointFromPointer(x, f, 0, 0),
             getPointFromPointer(x, f, 0, 0)>> : x \in xs, f \in fs}

\* ------------------------------------------------------------ specifications
\* The state after construction in active mode on the first surface, over a
\* store that holds one of `stores`: the mount effect has issued the load of the
\* first key.
InitStored(stores) ==
  /\ detached = {}
  /\ mounted = TRUE
  /\ treeDown = FALSE
  /\ pathsRef = <<>>
  /\ currentPointsRef = <<>>
  /\ isDrawingRef = FALSE
  /\ toolRef = DefaultToolState.tool
  /\ colorRef = DefaultToolState.color
  /\ sizeRef = DefaultToolState.size
  /\ lastPenDownRef = 0
  /\ usingTouchRef = FALSE
  /\ timers = EmptyBag
  /\ activeTouchStarts = 1
  /\ firstTouchEnd = Closure("gen:1:chinese", 0)
  /\ laterTouchEnds = 0
  /\ loadFrames = <<>>
  /\ imgLoads = 0
  /\ isDragging = FALSE
  /\ dragStartRef = 0
  /\ firstTouchCancel = 0
  /\ raster = <<>>
  /\ needsRedrawRef = FALSE
  /\ rafIdRef = FALSE
  /\ rafPending = 0
  /\ annotationKey = "gen:1:chinese"
  /\ savedPaths = EmptyStr
  /\ extraHeight = 0
  /\ isActive = TRUE
  /\ toolState = DefaultToolState
  /\ db \in stores
  /\ queue = <<GetOp("gen:1:chinese")>>
  /\ saveResult = "none"
  /\ now \in StartTimes
  /\ touchIds = {}
  /\ strokeSrc = NoStroke
  /\ stylus = NoStylus
  /\ scen = NoScen

\* fresh storage
Init == InitStored({[id \in Ids |-> NoRecord]})

\* touch events of contacts of the given types and forces
TouchInput(tts, fs, xs) ==
  \/ \E id \in TouchContacts, tt \in tts, f \in fs, x \in xs :
       handleTouchStart(id, tt, f, x, 0, 0)
  \/ \E ps \in TouchSamples(xs, fs) : handleTouchMove(ps)
  \/ \E id \in TouchContacts : handleTouchEnd(id)
  \/ \E id \in TouchContacts : handleTouchCancel(id)
  \/ \E due \in BagToSet(timers) : touchResetTimer(due)

\* pointer events of pointers of the given types
PointerInput(pts, fs, xs, mxs) ==
  \/ \E pt \in pts, pr \in BOOLEAN, x \in xs, f \in fs :
       handlePointerDown(pt, pr, x, f, 0, 0)
  \/ \E ps \in PointerSamples(mxs, fs) : handlePointerMove(ps)
  \/ handlePointerUp
  \/ handlePointerCancel

\* setTimeout callbacks of handleTouchEnd that wait at once where many
\* releases follow each other
PendingResets == 2

\* no stroke is in progress, no contact is down and the store has answered
Settled == queue = <<>> /\ ~isDrawingRef /\ touchIds = {}

\* between strokes, until the first change back to active mode has added its
\* touchstart listener
FirstRoundTrip == Settled /\ activeTouchStarts = 1 /\ loadFrames = <<>>

Store ==
  \/ \E i \in 1..Len(queue) : ApplyPut(i)
  \/ \E i \in 1..Len(queue) : LookupOld(i)
  \/ \E i \in 1..Len(queue) : LoadReturn(i)

\* Both input channels on one surface, fingers and mouse, for the time in
\* which a reset of the touch flag armed at the start comes due and runs late.
ChannelsUntil == 1150
Next ==
  \/ TouchInput({"direct"}, {0}, {1}) /\ BagCardinality(timers') <= PendingResets
  \/ PointerInput({"touch", "mouse"}, {0}, {1}, {1})
  \/ renderLoop
  \/ now < ChannelsUntil /\ Tick
  \/ Store

Spec == Init /\ [][Next]_vars

\* The stylus on both channels, in active and passive mode; the clock advances
\* and the mode changes between strokes.
NextPen ==
  \/ \E tt \in {"stylus", "direct"}, f \in {0, 5} : handleTouchStart(1, tt, f, 1, 0, 0)
  \/ /\ Len(currentPointsRef) < 2
     /\ pathsRef = <<>> \/ ~isActive
     /\ handleTouchMove(<<getPointFromTouch(1, 0, 0, 0)>>)
  \/ handleTouchEnd(1) /\ BagCardinality(timers') <= PendingResets
  \/ \E due \in BagToSet(timers) : touchResetTimer(due)
  \/ \E pr \in BOOLEAN : handlePointerDown("pen", pr, 1, 0, 0, 0)
  \/ handlePointerUp
  \/ renderLoop
  \/ ~isDrawingRef /\ touchIds = {} /\ Tick
  \/ \E b \in BOOLEAN : ~isDrawingRef /\ touchIds = {} /\ SetActive(b)
  \/ activationFrame

SpecPen == Init /\ [][NextPen]_vars

\* Surfaces: drawing with one finger, undo, switching, and leaving annotation
\* mode in the middle of the first stroke, which removes the canvas under the
\* finger.
NextSurface ==
  \/ handleTouchStart(1, "direct", 0, 1, 0, 0)
  \/ Len(currentPointsRef) < 2 /\ handleTouchMove(<<getPointFromTouch(1, 0, 0, 0)>>)
  \/ handleTouchEnd(1)
  \/ handleTouchCancel(1)
  \/ Undo
  \/ \E k \in Keys : SwitchKey(k)
  \/ isDrawingRef /\ pathsRef = <<>> /\ queue = <<>> /\ SetActive(FALSE)
  \/ Store

SpecSurface == Init /\ [][NextSurface]_vars

\* Switching surfaces while drawing with one finger.
NextSwitch ==
  \/ handleTouchStart(1, "direct", 0, 1, 0, 0)
  \/ Len(currentPointsRef) < 2 /\ handleTouchMove(<<getPointFromTouch(1, 0, 0, 0)>>)
  \/ handleTouchEnd(1)
  \/ renderLoop
  \/ \E k \in Keys : SwitchKey(k)
  \/ Store

SpecSwitch == Init /\ [][NextSwitch]_vars

\* contacts in the verse content and in the expanded margin below it
PaintPositions == {1, ContentHeight + 1}

\* Painting: strokes of one finger in the content and in the margin, animation
\* frames, cancellation on both channels, redraw() and expansion.
NextPaint ==
  \/ \E x \in PaintPositions : handleTouchStart(1, "direct", 0, x, 0, 0)
  \/ \E x \in PaintPositions :
       Len(currentPointsRef) < 2 /\ handleTouchMove(<<getPointFromTouch(x, 0, 0, 0)>>)
  \/ handleTouchEnd(1)
  \/ handleTouchCancel(1)
  \/ handlePointerCancel
  \/ renderLoop
  \/ redraw
  \/ handleExpandPointerDown
  \/ \E d \in {-2500, 2500} : ExpandDrag(d)
  \/ handleUp
  \/ Store

SpecPaint == Init /\ [][NextPaint]_vars

\* Frames: strokes of the mouse with single and coalesced samples at a
\* position on the canvas and at one above and left of it (the pointer is
\* captured), a finger that goes down and up, cancellation and animation
\* frames, until the first path is committed.
FramePositions == {-3, 1}
NextFrames ==
  \/ pathsRef = <<>> /\ handleTouchStart(1, "direct", 0, 1, 0, 0)
  \/ handleTouchEnd(1)
  \/ pathsRef = <<>> /\ handlePointerDown("mouse", TRUE, 1, 0, 0, 0)
  \/ \E ps \in PointerSamples(FramePositions, {0}) : handlePointerMove(ps)
  \/ handlePointerUp
  \/ handlePointerCancel
  \/ renderLoop
  \/ Store
SpecFrames == Init /\ [][NextFrames]_vars

\* Undo: strokes of one finger between two positions of the content, animation
\* frames, undo in active and in passive mode and the store; the mode changes
\* between strokes.
UndoPositions == {1, 2}
NextUndo ==
  \/ handleTouchStart(1, "direct", 0, 1, 0, 0)
  \/ \E x \in UndoPositions :
       Len(currentPointsRef) < 2 /\ handleTouchMove(<<getPointFromTouch(x, 0, 0, 0)>>)
  \/ handleTouchEnd(1)
  \/ renderLoop
  \/ Undo
  \/ \E b \in BOOLEAN : FirstRoundTrip /\ SetActive(b)
  \/ activationFrame
  \/ Store
SpecUndo == Init /\ [][NextUndo]_vars

\* The page is loaded again once the store has answered everything: the
\* components are constructed anew on the first surface, the storage stays.
\* The history notes the Path Store of the old session when the record of the
\* surface holds its serialization.
Reload ==
  /\ queue = <<>>
  /\ touchIds = {}
  /\ detached' = {}
  /\ mounted' = TRUE
  /\ treeDown' = FALSE
  /\ pathsRef' = <<>>
  /\ currentPointsRef' = <<>>
  /\ isDrawingRef' = FALSE
  /\ toolRef' = DefaultToolState.tool
  /\ colorRef' = DefaultToolState.color
  /\ sizeRef' = DefaultToolState.size
  /\ lastPenDownRef' = 0
  /\ usingTouchRef' = FALSE
  /\ timers' = EmptyBag
  /\ activeTouchStarts' = 1
  /\ firstTouchEnd' = Closure("gen:1:chinese", 0)
  /\ laterTouchEnds' = 0
  /\ loadFrames' = <<>>
  /\ imgLoads' = 0
  /\ isDragging' = FALSE
  /\ dragStartRef' = 0
  /\ firstTouchCancel' = 0
  /\ raster' = <<>>
  /\ needsRedrawRef' = FALSE
  /\ rafIdRef' = FALSE
  /\ rafPending' = 0
  /\ annotationKey' = "gen:1:chinese"
  /\ savedPaths' = EmptyStr
  /\ extraHeight' = 0
  /\ isActive' = TRUE
  /\ toolState' = DefaultToolState
  /\ queue' = <<GetOp("gen:1:chinese")>>
  /\ saveResult' = "none"
  /\ strokeSrc' = NoStroke
  /\ stylus' = NoStylus
  /\ scen' = IF /\ db["gen:1:chinese"].present
                /\ annotationKey = "gen:1:chinese"
                /\ db["gen:1:chinese"].data = getData(pathsRef)
             THEN [NoScen EXCEPT !.phase = "reloaded", !.key = "gen:1:chinese",
                                 !.data = getData(pathsRef), !.after = pathsRef]
             ELSE NoScen
  /\ UNCHANGED <<db, now, touchIds>>

\* Reloading: strokes of one finger between two positions, undo, the store and
\* reloads of the page.
NextReload ==
  \/ handleTouchStart(1, "direct", 0, 1, 0, 0)
  \/ \E x \in UndoPositions :
       Len(currentPointsRef) < 2 /\ handleTouchMove(<<getPointFromTouch(x, 0, 0, 0)>>)
  \/ handleTouchEnd(1)
  \/ renderLoop
  \/ Undo
  \/ Store
  \/ Reload
SpecReload == Init /\ [][NextReload]_vars

\* Every writer of the Path Store: strokes of one finger, undo and clear-all in
\* active mode, loads after a reload and after an activation, over a store that
\* answers; the mode changes between strokes.
WritersPaths == 2
WriterInput(positions) ==
  \/ \E x \in positions :
       Len(currentPointsRef) < 2 /\ handleTouchMove(<<getPointFromTouch(x, 0, 0, 0)>>)
  \/ handleTouchEnd(1) /\ BagCardinality(timers') <= PendingResets
  \/ renderLoop
  \/ \E i \in 1..Len(queue) : ApplyPut(i)
  \/ \E i \in 1..Len(queue) : ApplyDelete(i)
  \/ \E i \in 1..Len(queue) : RejectDelete(i)
  \/ \E i \in 1..Len(queue) : LookupOld(i)
  \/ \E i \in 1..Len(queue) : LoadReturn(i)
  \/ Reload
WritersMoves == {1}
NextWriters ==
  \/ \E x \in UndoPositions :
       /\ isActive /\ Len(queue) < 2 /\ Len(pathsRef) < WritersPaths
       /\ handleTouchStart(1, "direct", 0, x, 0, 0)
  \/ isActive /\ Len(queue) < 2 /\ Undo
  \/ isActive /\ queue = <<>> /\ ClearAll
  \/ \E b \in BOOLEAN : FirstRoundTrip /\ SetActive(b)
  \/ activationFrame
  \/ WriterInput(WritersMoves)
SpecWriters == Init /\ [][NextWriters]_vars

\* a record with one path and an expanded height
StoredRecord ==
  Record(JSONstringify(<<[tool |-> "pen", color |-> "#000000",
                          size |-> DefaultSize,
                          points |-> <<getPointFromTouch(1, 0, 0, 0),
                                       getPointFromTouch(2, 0, 0, 0)>>]>>), 1200)

\* Browsing: the reader moves between surfaces and turns annotation mode on
\* and off, and never draws, undoes, clears or drags the height. Each id holds
\* a record or none.
BrowseStores == [Ids -> {NoRecord, StoredRecord}]
NextBrowse ==
  \/ \E k \in Keys : SwitchKey(k)
  \/ \E b \in BOOLEAN : SetActive(b)
  \/ activationFrame
  \/ Store
SpecBrowse == InitStored(BrowseStores) /\ [][NextBrowse]_vars

\* One surface has a record, the other has none; strokes of one finger at one
\* position (no stroke repeats the stored path), switches, and a store that
\* answers.
OwnedStores ==
  {[id \in Ids |-> IF id = "gen:1:chinese" THEN StoredRecord ELSE NoRecord]}
SpecOwned == InitStored(OwnedStores) /\ [][NextSwitch]_vars

\* A store whose reads may fail, under a reader who opens one surface, turns
\* annotation mode on and off and reloads the page, and does nothing else.
NextReadError ==
  \/ \E i \in 1..Len(queue) : RejectGet(i)
  \/ \E b \in BOOLEAN : SetActive(b)
  \/ activationFrame
  \/ Store
  \/ Reload
SpecReadError == InitStored(BrowseStores) /\ [][NextReadError]_vars

\* Every writer of the Path Store over a store that holds records from
\* earlier sessions, with or without panel in the key.
NextClear ==
  \/ \E x \in UndoPositions :
       /\ Len(queue) < 2 /\ Len(pathsRef) < WritersPaths
       /\ handleTouchStart(1, "direct", 0, x, 0, 0)
  \/ Len(queue) < 2 /\ Undo
  \/ queue = <<>> /\ ClearAll
  \/ WriterInput(UndoPositions)
SpecClear == InitStored(BrowseStores) /\ [][NextClear]_vars

\* Tool changes: strokes of one finger while the host pushes tool states.
HostToolStates ==
  {DefaultToolState, [tool |-> "marker", color |-> "#ef4444", size |-> 4]}
NextTool ==
  \/ handleTouchStart(1, "direct", 0, 1, 0, 0)
  \/ \E x \in UndoPositions :
       Len(currentPointsRef) < 2 /\ handleTouchMove(<<getPointFromTouch(x, 0, 0, 0)>>)
  \/ handleTouchEnd(1)
  \/ renderLoop
  \/ \E ts \in HostToolStates : HostSetTool(ts)
  \/ Store
SpecTool == Init /\ [][NextTool]_vars

\* Tool changes of both kinds: strokes and double-taps of a stylus held at 45
\* degrees (altitudeAngle pi / 4) while the host pushes tool states.
StylusAltitude == 1
NextToggle ==
  \/ /\ pathsRef = <<>> \/ InDoubleTapWindow(now, lastPenDownRef)
     /\ handleTouchStart(1, "stylus", 0, 1, 0, StylusAltitude)
  \/ /\ Len(currentPointsRef) < 2
     /\ handleTouchMove(<<getPointFromTouch(2, 0, 0, StylusAltitude)>>)
  \/ handleTouchEnd(1)
  \/ \E due \in BagToSet(timers) : touchResetTimer(due)
  \/ renderLoop
  \/ Tick
  \/ \E ts \in HostToolStates : queue = <<>> /\ HostSetTool(ts)
  \/ Store
SpecToggle == Init /\ [][NextToggle]_vars

\* A store that may reject writes, under strokes of one finger, undo and
\* clear-all.
NextReject ==
  \/ handleTouchStart(1, "direct", 0, 1, 0, 0)
  \/ \E x \in UndoPositions :
       Len(currentPointsRef) < 2 /\ handleTouchMove(<<getPointFromTouch(x, 0, 0, 0)>>)
  \/ handleTouchEnd(1)
  \/ renderLoop
  \/ Undo
  \/ ClearAll
  \/ Store
  \/ \E i \in 1..Len(queue) : ApplyDelete(i)
  \/ \E i \in 1..Len(queue) : RejectPut(i)
SpecReject == Init /\ [][NextReject]_vars

\* Expansion: drags of the expand handle by deltas that stay inside and that
\* leave [0, MAX_EXPAND], pointerdowns on the handle before and during a drag,
\* a first stroke on a surface (so that heights are saved), surface switches
\* (so that heights are loaded back) and the store; drags and switches wait
\* while two store operations are in flight. The storage is fresh, or it holds
\* for the second surface a record that something else than this build wrote:
\* one path and a canvasHeight of 2500, which a Surface Record may have.
ExpandDeltas == {-2500, 1200}
TallRecord ==
  Record(JSONstringify(<<[tool |-> "pen", color |-> "#000000",
                          size |-> DefaultSize,
                          points |-> <<[x |-> 1, y |-> 1,
                                        pressure |-> DefaultPressure,
                                        tiltX |-> 0, tiltY |-> 0],
                                       [x |-> 2, y |-> 2,
                                        pressure |-> DefaultPressure,
                                        tiltX |-> 0, tiltY |-> 0]>>]>>), 2500)
InitExpand ==
  InitStored({[id \in Ids |-> IF id = "gen:2:chinese" THEN r ELSE NoRecord] :
                r \in {NoRecord, TallRecord}})
NextExpand ==
  \/ pathsRef = <<>> /\ handleTouchStart(1, "direct", 0, 1, 0, 0)
  \/ Len(currentPointsRef) < 2 /\ handleTouchMove(<<getPointFromTouch(1, 0, 0, 0)>>)
  \/ handleTouchEnd(1)
  \/ handleExpandPointerDown
  \/ \E d \in ExpandDeltas : Len(queue) < 2 /\ ExpandDrag(d)
  \/ handleUp
  \/ \E k \in Keys : Len(queue) < 2 /\ SwitchKey(k)
  \/ Store
SpecExpand == InitExpand /\ [][NextExpand]_vars

\* Resizes: the expand handle is dragged, the width of the canvas changes, and
\* surfaces with other heights are loaded, between and during strokes of one
\* finger.
NextResize ==
  \/ /\ Len(queue) < 2 /\ pathsRef = <<>>
     /\ handleTouchStart(1, "direct", 0, 1, 0, 0)
  \/ Len(currentPointsRef) < 2 /\ handleTouchMove(<<getPointFromTouch(2, 0, 0, 0)>>)
  \/ handleTouchEnd(1)
  \/ renderLoop
  \/ handleExpandPointerDown
  \/ \E d \in ExpandDeltas : Len(queue) < 2 /\ ExpandDrag(d)
  \/ handleUp
  \/ ResizeObserved
  \/ \E k \in Keys : queue = <<>> /\ SwitchKey(k)
  \/ Store
SpecResize == Init /\ [][NextResize]_vars

\* Storage written before panels existed: records under `${bookId}:${chapter}`
\* only, each with one path; the first chapter has one, the second may.
LegacyRecord ==
  Record(JSONstringify(<<[tool |-> "pen", color |-> "#000000",
                          size |-> DefaultSize,
                          points |-> <<getPointFromTouch(1, 0, 0, 0),
                                       getPointFromTouch(2, 0, 0, 0)>>]>>), 0)
InitLegacy ==
  InitStored({d \in [Ids -> {NoRecord, LegacyRecord}] :
                /\ \A k \in Keys : d[k] = NoRecord
                /\ d[OldId("gen:1:chinese")] = LegacyRecord})
SpecLegacy == InitLegacy /\ [][NextSwitch]_vars

\* Storage in which the record of the second surface holds something else than
\* paths: a text that does not parse, the JSON text of an object, or an image
\* URL, saved at the content height or at an expanded one. A stroke on a
\* surface without paths, switches once the store has answered, the image that
\* loads, changes of the mode on the second surface between strokes, and a
\* drag of the expand handle over a store that cannot be iterated.
CorruptData == {BadStr, ObjStr, ImageStr}
CorruptHeights == {0, 5}
InitCorrupt ==
  InitStored({[id \in Ids |-> IF id = "gen:2:chinese" THEN Record(d, h)
                                ELSE NoRecord] :
                d \in CorruptData, h \in CorruptHeights})
NextCorrupt ==
  \/ /\ pathsRef = <<>> \/ ~Iterable(pathsRef)
     /\ handleTouchStart(1, "direct", 0, 1, 0, 0)
  \/ Len(currentPointsRef) < 2 /\ handleTouchMove(<<getPointFromTouch(1, 0, 0, 0)>>)
  \/ handleTouchEnd(1) /\ BagCardinality(timers') <= PendingResets
  \/ renderLoop
  \/ \E k \in Keys : queue = <<>> /\ SwitchKey(k)
  \/ Store
  \/ \E b \in BOOLEAN :
       Settled /\ annotationKey = "gen:2:chinese" /\ SetActive(b)
  \/ activationFrame
  \/ imgOnload
  \/ Settled /\ ~Iterable(pathsRef) /\ handleExpandPointerDown
  \/ \E d \in CorruptHeights : ~Iterable(pathsRef) /\ ExpandDrag(d)
  \/ handleUp
SpecCorrupt == InitCorrupt /\ [][NextCorrupt]_vars

\* Storage that holds an imported record for the first surface: one path of two
\* points whose end point has any pressure from 0 to 1, in tenths, and no tilt,
\* a tilt of 10 degrees or one of 30 degrees to the left. The record is there
\* from the start, so the first read of every lookup finds it.
ImportPressures == 0..10
ImportSizes == {1, DefaultSize}
ImportTools == Tools
ImportTilts == {-300, 0, 100}
ImportedPath(t, s, p, tx) ==
  [tool |-> t, color |-> "#000000", size |-> s,
   points |-> <<[x |-> 1, y |-> 1, pressure |-> DefaultPressure,
                 tiltX |-> 0, tiltY |-> 0],
                [x |-> 2, y |-> 2, pressure |-> p, tiltX |-> tx, tiltY |-> 0]>>]
InitImported ==
  InitStored({[id \in Ids |->
                 IF id = "gen:1:chinese"
                 THEN Record(JSONstringify(<<ImportedPath(t, s, p, tx)>>), 0)
                 ELSE NoRecord] :
                t \in ImportTools, s \in ImportSizes, p \in ImportPressures,
                tx \in ImportTilts})
\* PointerEvent.tiltX of the pen strokes drawn over the import: 30 degrees
PenTilt == 300
NextImported ==
  \/ handleTouchStart(1, "direct", 0, 1, 0, 0)
  \/ Len(currentPointsRef) < 2 /\ handleTouchMove(<<getPointFromTouch(1, 0, 0, 0)>>)
  \/ handleTouchEnd(1) /\ BagCardinality(timers') <= PendingResets
  \/ /\ queue = <<>> /\ Len(pathsRef) = 1
     /\ handlePointerDown("pen", TRUE, 1, DefaultPressure, PenTilt, 0)
  \/ /\ Len(currentPointsRef) < 2
     /\ handlePointerMove(<<getPointFromPointer(2, DefaultPressure, PenTilt, 0)>>)
  \/ handlePointerUp
  \/ renderLoop
  \/ Undo
  \/ \E i \in 1..Len(queue) : ApplyPut(i)
  \/ \E i \in 1..Len(queue) : LoadReturn(i)
SpecImported == InitImported /\ [][NextImported]_vars

\* ------------------------------------------------------------------ claims
\* a step of some pointer-channel handler
AnyPointerEvent == PointerInput({"pen", "touch", "mouse"}, {0, 5}, {1, 2}, {1, 2})
\* a step of some touch-channel handler
AnyTouchEvent ==
  \/ \E id \in TouchContacts, tt \in {"stylus", "direct"}, f \in {0, 5},
        x \in {1, 2} : handleTouchStart(id, tt, f, x, 0, 0)
  \/ \E ps \in TouchSamples({1, 2}, {0, 5}) : handleTouchMove(ps)
  \/ \E id \in TouchContacts : handleTouchEnd(id)
  \/ \E id \in TouchContacts : handleTouchCancel(id)

\* C1: while a stroke started by a touch event is in progress, a pointer event
\* (pointerdown, pointermove, pointerup, pointercancel) leaves the Drawing flag,
\* the point buffer and the Path Store as they were.
C1_PointerIgnoredDuringTouchStroke ==
  [][(isDrawingRef /\ strokeSrc.chan = "touch" /\ AnyPointerEvent)
       => UNCHANGED <<isDrawingRef, currentPointsRef, pathsRef>>]_vars

\* C2: while a stroke started by a pointer event is in progress, a touch event
\* does not reset or extend the buffer, end or cancel the stroke, or start a
\* second stroke.
C2_TouchIgnoredDuringPointerStroke ==
  [][(isDrawingRef /\ strokeSrc.chan = "pointer" /\ AnyTouchEvent)
       => UNCHANGED <<isDrawingRef, currentPointsRef, pathsRef, strokeSrc>>]_vars

\* a touchstart or touchend of contact j
ContactEvent(j) ==
  \/ \E tt \in {"stylus", "direct"}, f \in {0, 5}, x \in {1, 2} :
       handleTouchStart(j, tt, f, x, 0, 0)
  \/ handleTouchEnd(j)

\* C3: while the contact that started a stroke is down, the start, movement and
\* release of another contact leave the stroke in Drawing with its buffer intact.
C3_SecondContactIgnored ==
  [][(/\ isDrawingRef /\ strokeSrc.chan = "touch" /\ strokeSrc.id \in touchIds
      /\ \/ \E j \in TouchContacts \ {strokeSrc.id} : ContactEvent(j)
         \/ /\ Cardinality(touchIds) > 1
            /\ \E ps \in TouchSamples({1, 2}, {0, 5}) : handleTouchMove(ps))
       => /\ isDrawingRef'
          /\ UNCHANGED <<currentPointsRef, pathsRef, strokeSrc>>]_vars

\* the lookup at position i answers the load of the latest switch, nothing else
\* is in flight and no stroke is in progress
LatestLoad(i) ==
  /\ queue[i].op \in {"get", "getOld"}
  /\ queue[i].key = annotationKey
  /\ Len(queue) = 1
  /\ ~isDrawingRef

\* C4: when the load for the new key returns, the Path Store is the path
\* sequence of that key's record (empty when the record is absent or holds no
\* path data) and the height is the record's height (0 when absent).
C4_LoadReplacesStore ==
  [][\A i \in 1..Len(queue) :
       (LatestLoad(i) /\ LoadReturn(i))
         => LET r == LookupResult(queue[i])
            IN /\ pathsRef' = IF r.present /\ ParsesToArray(r.data)
                              THEN JSONparse(r.data) ELSE <<>>
               /\ extraHeight' = IF r.present THEN r.height ELSE 0]_vars

\* C5: surface A saved with paths [A1], a switch to B and a switch back to A:
\* the load for A returns the record [A1] and the Path Store becomes [A1].
C5_SwitchBackLoadsSaved ==
  scen.phase = "done"
    => /\ scen.got.present
       /\ scen.got.data = scen.data
       /\ scen.after = JSONparse(scen.data)

\* C6: when a switch issues the load of the incoming surface, the save of the
\* outgoing surface has been applied to the store, that is, it is not in
\* flight any more.
C6_SaveAppliedBeforeLoadIssued ==
  [][\A k \in Keys :
       (Truthy(savedPaths) /\ SwitchKey(k))
         => \A j \in 1..Len(queue') :
              queue'[j] # PutOp(annotationKey, savedPaths, extraHeight)]_vars

\* C7: a switch while a stroke is in the Drawing state ends the stroke: the
\* session is Idle and the buffer empty afterwards.
C7_SwitchEndsStroke ==
  [][(isDrawingRef /\ \E k \in Keys : SwitchKey(k))
       => (~isDrawingRef' /\ currentPointsRef' = <<>>)]_vars

\* a stylus-down that reaches startDrawing in writing mode: a touch of type
\* stylus with no other contact down, or a pen pointer while the touch flag is
\* clear
StylusDownAccepted ==
  \/ /\ touchIds = {}
     /\ activeTouchStarts > 0
     /\ \E id \in TouchContacts, f \in {0, 5}, x \in {1, 2} :
          handleTouchStart(id, "stylus", f, x, 0, 0)
  \/ /\ isWritingMode
     /\ ~usingTouchRef
     /\ \E pr \in BOOLEAN, f \in {0, 5}, x \in {1, 2} :
          handlePointerDown("pen", pr, x, f, 0, 0)

\* C8: a stylus-down more than 50 ms and less than 300 ms after the previous
\* stylus-down starts no stroke (session and buffer stay as they were) and
\* switches the tool between pen and eraser.
C8_DoubleTapToggles ==
  [][(/\ StylusDownAccepted
      /\ stylus.at # 0
      /\ now - stylus.at > 50
      /\ now - stylus.at < 300)
       => /\ UNCHANGED <<isDrawingRef, currentPointsRef>>
          /\ toolRef' = IF toolRef = "eraser" THEN "pen"
                        ELSE IF toolRef = "pen" THEN "eraser" ELSE toolRef']_vars

\* a down of a finger or of a mouse / touch pointer
NonStylusDown ==
  \/ \E id \in TouchContacts, f \in {0, 5}, x \in {1, 2} :
       handleTouchStart(id, "direct", f, x, 0, 0)
  \/ \E pt \in {"mouse", "touch"}, pr \in BOOLEAN, f \in {0, 5}, x \in {1, 2} :
       handlePointerDown(pt, pr, x, f, 0, 0)

\* C9: a stylus-down 50 ms or less, or 300 ms or more, after the previous one
\* starts a stroke and leaves the tool alone; a non-stylus down never changes
\* the tool.
C9_OutsideWindowStartsStroke ==
  [][/\ (/\ StylusDownAccepted
         /\ stylus.at # 0
         /\ (now - stylus.at <= 50 \/ now - stylus.at >= 300))
          => /\ isDrawingRef'
             /\ Len(currentPointsRef') = 1
             /\ UNCHANGED toolRef
     /\ NonStylusDown => UNCHANGED toolRef]_vars

\* C10: the release of the contact that started a stroke with at least two
\* buffered points appends one path, built from the buffer and the current
\* tool, color and size, at the end of the Path Store, empties the buffer and
\* hands the serialized store to the save for the current key.
C10_ReleaseAppendsAndSaves ==
  [][(/\ isDrawingRef
      /\ Len(currentPointsRef) >= 2
      /\ \/ strokeSrc.chan = "touch" /\ handleTouchEnd(strokeSrc.id)
         \/ strokeSrc.chan = "pointer" /\ ~usingTouchRef /\ handlePointerUp)
       => /\ pathsRef' = Append(pathsRef,
                                [tool |-> toolRef, color |-> colorRef,
                                 size |-> sizeRef, points |-> currentPointsRef])
          /\ currentPointsRef' = <<>>
          /\ Len(queue') = Len(queue) + 1
          /\ queue'[Len(queue')].op = "put"
          /\ queue'[Len(queue')].key = annotationKey
          /\ queue'[Len(queue')].data = JSONstringify(pathsRef')]_vars

\* every path of a path sequence has at least two points
MinLength(ps) == \A i \in 1..Len(ps) : Len(ps[i].points) >= 2

\* the release of a stroke that buffered exactly one point
TapRelease ==
  /\ isDrawingRef
  /\ Len(currentPointsRef) = 1
  /\ \/ \E id \in TouchContacts : handleTouchEnd(id)
     \/ handlePointerUp

\* C11: from an empty Path Store and empty storage, every path in the Path
\* Store and in every persisted record has at least 2 points; the release of a
\* stroke with exactly 1 point appends nothing, issues no save and leaves the
\* serialized store and the records as they were.
C11_NoShortPath ==
  /\ [](/\ MinLength(pathsRef)
        /\ \A id \in Ids : db[id].present => MinLength(JSONparse(db[id].data)))
  /\ [][TapRelease
         => /\ UNCHANGED <<pathsRef, savedPaths, queue, db>>
            /\ getData(pathsRef') = getData(pathsRef)]_vars

\* a tap has been released (its touchend armed the reset timer) on a surface
\* that never held a path: nothing was appended, saved or stored
C11_Witness ==
  /\ timers # EmptyBag
  /\ ~isDrawingRef /\ touchIds = {}
  /\ pathsRef = <<>>
  /\ \A i \in 1..Len(queue) : ~Truthy(queue[i].data)
  /\ \A id \in Ids : db[id].present => ~Truthy(db[id].data)

\* a touchcancel or pointercancel delivered while a stroke is in progress
CancelWhileDrawing ==
  /\ isDrawingRef
  /\ \/ \E id \in TouchContacts : handleTouchCancel(id)
     \/ handlePointerCancel

\* C12: cancelling a stroke in progress leaves the Path Store, the records and
\* the pending saves as they were, empties the buffer, returns to Idle, and
\* leaves on the raster exactly the replay of the committed paths.
C12_CancelRestoresCommitted ==
  [][CancelWhileDrawing
       => /\ UNCHANGED <<pathsRef, db, queue, savedPaths>>
          /\ currentPointsRef' = <<>>
          /\ ~isDrawingRef'
          /\ raster' \in ReplayOn(pathsRef, extraHeight)]_vars

\* C13: undo removes the most recently appended path and nothing else (the
\* paths before it stay, in order); on an empty store it leaves the store, the
\* raster, the records and the pending saves as they were.
C13_UndoPopsLast ==
  [][Undo
       => IF Len(pathsRef) > 0
          THEN /\ Len(pathsRef') = Len(pathsRef) - 1
               /\ \A i \in 1..Len(pathsRef') : pathsRef'[i] = pathsRef[i]
          ELSE UNCHANGED <<pathsRef, raster, db, queue, savedPaths>>]_vars

\* two different paths A, B were appended and saved, and undo has left [A]:
\* the record still holds [A, B] and the save of [A] is on its way
C13_Witness ==
  /\ Len(pathsRef) = 1
  /\ db[annotationKey].present
  /\ ParsesToArray(db[annotationKey].data)
  /\ Len(JSONparse(db[annotationKey].data)) = 2
  /\ JSONparse(db[annotationKey].data)[1] = pathsRef[1]
  /\ JSONparse(db[annotationKey].data)[2] # pathsRef[1]
  /\ \E i \in 1..Len(queue) : queue[i] = PutOp(annotationKey,
                                               JSONstringify(pathsRef),
                                               extraHeight)

\* a release that completes the stroke in progress
StrokeCompleted ==
  /\ isDrawingRef /\ ~isDrawingRef'
  /\ Len(pathsRef') = Len(pathsRef) + 1
  /\ SubSeq(pathsRef', 1, Len(pathsRef)) = pathsRef

\* an animation frame that paints a segment of the stroke in progress
SegmentPainted ==
  /\ isDrawingRef /\ renderLoop
  /\ Len(raster') = Len(raster) + 1

StartValues(r) ==
  r.tool = strokeSrc.tool /\ r.color = strokeSrc.color /\ r.size = strokeSrc.size

\* C14: the tool, color and size recorded in a completed path, and those used
\* to paint each segment of a stroke in progress, are the values the canvas held
\* when the stroke started.
C14_ToolFixedAtStart ==
  /\ [][StrokeCompleted => StartValues(pathsRef'[Len(pathsRef')])]_vars
  /\ [][SegmentPainted => StartValues(raster'[Len(raster')])]_vars

\* C15: once the store has answered every request, an expanded height set by
\* dragging is the height of the record of the surface, with or without paths.
C15_HeightPersisted ==
  (queue = <<>> /\ extraHeight # 0)
    => (db[annotationKey].present /\ db[annotationKey].height = extraHeight)

\* C16: the expanded height is always in [0, MAX_EXPAND]; a move of a drag that
\* started at height h, d below the point where it started, sets the height to
\* 0 when h + d < 0, to MAX_EXPAND when h + d > MAX_EXPAND and to h + d
\* otherwise.
C16_HeightClamped ==
  /\ [](extraHeight >= 0 /\ extraHeight <= MAX_EXPAND)
  /\ [][\A d \in ExpandDeltas :
         ExpandDrag(d)
           => extraHeight' = IF dragStartRef + d < 0 THEN 0
                             ELSE IF dragStartRef + d > MAX_EXPAND THEN MAX_EXPAND
                             ELSE dragStartRef + d]_vars

\* what loadAnnotation does with a lookup result r
Delivered(r) ==
  IF r.present THEN savedPaths' = r.data /\ extraHeight' = r.height
  ELSE savedPaths' = EmptyStr /\ extraHeight' = 0

\* C17: a lookup returns the record under the exact key when its first read
\* finds one; it turns to the key without the panel only when that read finds
\* none, and then returns the record under that key, or absent when there is
\* none either.
C17_PanelFallback ==
  [][\A i \in 1..Len(queue) :
       /\ (LoadReturn(i) /\ queue[i].op = "get")
            => (db[queue[i].key].present /\ Delivered(db[queue[i].key]))
       /\ LookupOld(i) => ~db[queue[i].key].present
       /\ (LoadReturn(i) /\ queue[i].op = "getOld")
            => Delivered(db[OldId(queue[i].key)])]_vars

\* the record written before panels existed has been returned for the key with
\* the panel, which has no record of its own
C17_Witness ==
  /\ ~db[annotationKey].present
  /\ db[OldId(annotationKey)] = LegacyRecord
  /\ savedPaths = LegacyRecord.data
  /\ pathsRef = JSONparse(LegacyRecord.data)
  /\ queue = <<>>

\* a load that returns a record whose data does not parse
LoadsUnparsable(i) ==
  /\ LoadReturn(i)
  /\ LookupResult(queue[i]).present
  /\ LookupResult(queue[i]).data \in CorruptData

\* C18: after the load of a record with unparsable path data the Path Store is
\* empty, whatever it held before, and the load leaves the stored records as
\* they are.
C18_UnparsableLoadsEmpty ==
  [][\A i \in 1..Len(queue) :
       LoadsUnparsable(i) => (pathsRef' = <<>> /\ UNCHANGED db)]_vars

Rejection == \E i \in 1..Len(queue) : RejectPut(i)

\* the last save that settled was rejected
AfterRejection == saveResult = "rejected"

\* C19: a save the store rejects ends as a rejected operation of the adapter,
\* and it changes neither the Path Store, the point buffer, the expanded height
\* nor the session (nor the raster and the records). Afterwards a finger still
\* starts a stroke, a move still buffers its point, a release of two points or
\* more still appends the path and issues its save, undo still removes the
\* last path, and clear-all still empties the store, the buffer, the raster
\* and the height and issues the delete.
C19_RejectedSaveKeepsSession ==
  /\ [][Rejection
         => /\ saveResult' = "rejected"
            /\ UNCHANGED <<pathsRef, currentPointsRef, isDrawingRef, raster,
                           savedPaths, extraHeight, annotationKey, isActive,
                           db>>]_vars
  /\ [][(AfterRejection /\ touchIds = {}
          /\ handleTouchStart(1, "direct", 0, 1, 0, 0))
         => /\ isDrawingRef'
            /\ currentPointsRef' = <<[x |-> 1, y |-> 1,
                                      pressure |-> DefaultPressure,
                                      tiltX |-> 0, tiltY |-> 0]>>
            /\ pathsRef' = pathsRef]_vars
  /\ [][\A x \in UndoPositions :
         (AfterRejection /\ isDrawingRef
          /\ handleTouchMove(<<getPointFromTouch(x, 0, 0, 0)>>))
           => /\ currentPointsRef'
                   = Append(currentPointsRef,
                            [x |-> x, y |-> x, pressure |-> DefaultPressure,
                             tiltX |-> 0, tiltY |-> 0])
              /\ isDrawingRef']_vars
  /\ [][(AfterRejection /\ isDrawingRef /\ Len(currentPointsRef) >= 2
          /\ handleTouchEnd(1))
         => /\ pathsRef' = Append(pathsRef,
                                  [tool |-> toolRef, color |-> colorRef,
                                   size |-> sizeRef,
                                   points |-> currentPointsRef])
            /\ ~isDrawingRef'
            /\ currentPointsRef' = <<>>
            /\ savedPaths' = JSONstringify(pathsRef')
            /\ queue' = Append(queue, PutOp(annotationKey, savedPaths',
                                            extraHeight))]_vars
  /\ [][(AfterRejection /\ Undo /\ Len(pathsRef) > 0)
         => /\ pathsRef' = SubSeq(pathsRef, 1, Len(pathsRef) - 1)
            /\ savedPaths' = IF pathsRef' = <<>> THEN EmptyStr
                             ELSE JSONstringify(pathsRef')
            /\ queue' = Append(queue, PutOp(annotationKey, savedPaths',
                                            extraHeight))]_vars
  /\ [][(AfterRejection /\ ClearAll)
         => /\ pathsRef' = <<>>
            /\ currentPointsRef' = <<>>
            /\ raster' = <<>>
            /\ savedPaths' = EmptyStr
            /\ extraHeight' = 0
            /\ queue'[Len(queue')] = DeleteOp(annotationKey)]_vars

\* the save of the first stroke was rejected (no record, nothing in flight),
\* and a stroke that started after the rejection has buffered its second point
C19_Witness ==
  /\ AfterRejection
  /\ queue = <<>>
  /\ ~db[annotationKey].present
  /\ Len(pathsRef) = 1
  /\ isDrawingRef
  /\ strokeSrc.afterRejection
  /\ Len(currentPointsRef) = 2

\* the segments painted with the pen whose end point has no tilt
PenSegments ==
  {i \in 1..Len(raster) : /\ raster[i].tool = "pen"
                          /\ raster[i].to.tiltX = 0
                          /\ raster[i].to.tiltY = 0}

\* C20: a segment painted with the pen (no tilt) whose end point has pressure p
\* is size * (0.1 + 1.8 * p) wide for every p from 0 to 1, so size * 0.1 at
\* pressure 0. Widths are in hundredths times TiltUnit, pressures in tenths.
C20_PenWidth ==
  \A i \in PenSegments :
    raster[i].width
      = raster[i].size * (10 + 18 * raster[i].to.pressure) * TiltUnit

\* C20, amended: the pen width (no tilt) is size * (0.1 + 1.8 * p) for every p
\* above 0; an end point with pressure 0 is painted as one with pressure 0.5,
\* size * 1.0 wide; the width is above 0 in every case.
C20_PenWidthAmended ==
  \A i \in PenSegments :
    /\ raster[i].to.pressure > 0
         => raster[i].width
              = raster[i].size * (10 + 18 * raster[i].to.pressure) * TiltUnit
    /\ raster[i].to.pressure = 0
         => raster[i].width = raster[i].size * 100 * TiltUnit
    /\ raster[i].width > 0

\* the raster holds a pen segment whose end point has pressure 0 and no tilt
C20_Witness ==
  \E i \in PenSegments : raster[i].to.pressure = 0 /\ raster[i].width > 0

\* the width formula size * (0.1 + pressure * 1.8) at the pressure of the end
\* point of a segment, in hundredths of a pixel times TiltUnit (pressures are
\* in tenths)
FormulaWidth(seg) == seg.size * (10 + 18 * seg.to.pressure) * TiltUnit

\* the same formula with a pressure of 0 read as 0.5
FormulaWidthOfReported(seg) ==
  IF seg.to.pressure = 0 THEN seg.size * 100 * TiltUnit ELSE FormulaWidth(seg)

\* one of the tilts of the end point of a segment is above 15 degrees
Tilted(seg) == Abs(seg.to.tiltX) > 150 \/ Abs(seg.to.tiltY) > 150

\* what C21 says of the highlighter and the eraser, and of the context after
\* a segment
FixedToolParameters(seg) ==
  /\ seg.tool = "highlighter"
       => /\ seg.composite = "multiply" /\ seg.alpha = 25
          /\ seg.width = 500 * seg.size * TiltUnit
  /\ seg.tool = "eraser"
       => /\ seg.composite = "destination-out" /\ seg.alpha = 100
          /\ seg.width = 400 * seg.size * TiltUnit
  /\ seg.after = DefaultCtx

\* C21: every painted segment has the composite mode, width and alpha of its
\* tool: pen normal, the pressure-formula width size * (0.1 + 1.8 * pressure),
\* 1.0; marker normal, 2.5 times the pressure-formula width, 0.7; highlighter
\* multiply, 5 x size, 0.25; eraser destination-out, 4 x size, 1.0; and it
\* leaves the context's composite mode and alpha as they were.
C21_ToolPaintParameters ==
  \A i \in 1..Len(raster) :
    LET seg == raster[i]
    IN /\ seg.tool = "pen"
            => /\ seg.composite = "source-over" /\ seg.alpha = 100
               /\ seg.width = FormulaWidth(seg)
       /\ seg.tool = "marker"
            => /\ seg.composite = "source-over" /\ seg.alpha = 70
               /\ 2 * seg.width = 5 * FormulaWidth(seg)
       /\ FixedToolParameters(seg)

\* C21, amended: as C21, with the pressure-formula width taken at pressure 0.5
\* when the pressure of the end point is 0, and with the width of the pen
\* (only of the pen) multiplied by 1 + (|tiltX| + |tiltY|) / 180 when a tilt
\* of the end point is above 15 degrees.
C21_ToolPaintParametersAmended ==
  \A i \in 1..Len(raster) :
    LET seg == raster[i]
    IN /\ seg.tool = "pen"
            => /\ seg.composite = "source-over" /\ seg.alpha = 100
               /\ ~Tilted(seg) => seg.width = FormulaWidthOfReported(seg)
               /\ Tilted(seg)
                    => seg.width * TiltUnit
                         = FormulaWidthOfReported(seg)
                             * (TiltUnit + Abs(seg.to.tiltX) + Abs(seg.to.tiltY))
       /\ seg.tool = "marker"
            => /\ seg.composite = "source-over" /\ seg.alpha = 70
               /\ 2 * seg.width = 5 * FormulaWidthOfReported(seg)
       /\ FixedToolParameters(seg)

\* on the raster together: a marker segment of pressure 0 whose end point is
\* tilted by 30 degrees, and a segment of a pen held at 30 degrees, 7/6 of the
\* formula wide
C21_Witness ==
  /\ \E i \in 1..Len(raster) :
       /\ raster[i].tool = "marker"
       /\ raster[i].to.pressure = 0
       /\ Tilted(raster[i])
  /\ \E i \in 1..Len(raster) :
       /\ raster[i].tool = "pen"
       /\ raster[i].to.tiltX = PenTilt
       /\ 6 * raster[i].width = 7 * FormulaWidth(raster[i])

\* the load of a session constructed after a reload returns, and nothing has
\* been drawn in that session yet
FreshLoadReturns ==
  /\ scen.phase = "reloaded"
  /\ pathsRef = <<>> /\ ~isDrawingRef
  /\ \E i \in 1..Len(queue) : LoadReturn(i) /\ queue[i].key = scen.key

\* C22: when a Path Store was serialized and saved under a key and that key is
\* loaded into a fresh session, the Path Store of the fresh session has the same
\* paths in the same order, with the same tool, color, size and points; also
\* for no path at all.
C22_RoundTrip ==
  [][FreshLoadReturns => pathsRef' = scen.after]_vars

\* two different paths have gone through the store and came back in order
C22_Witness ==
  /\ scen.phase = "restored"
  /\ Len(scen.after) = 2
  /\ scen.after[1] # scen.after[2]
  /\ pathsRef = scen.after

\* a handler that calls fullRedraw: a cancel of the stroke in progress, an undo
\* of a path, redraw()
FullReplayStep ==
  \/ CancelWhileDrawing
  \/ Undo /\ Len(pathsRef) > 0
  \/ redraw

\* C23: a full replay clears the raster and paints one segment for every
\* consecutive point pair of every path, in store and point order, so that the
\* raster is the replay of the Path Store; a second replay right after it gives
\* the same paint operations and the same raster.
C23_FullReplay ==
  /\ [][FullReplayStep => raster' \in ReplayOn(pathsRef', extraHeight')]_vars
  /\ [](mounted
          => \A r \in fullRedraw(raster, extraHeight, pathsRef) :
               fullRedraw(r, extraHeight, pathsRef)
                 \subseteq fullRedraw(raster, extraHeight, pathsRef))

\* C24: an animation frame paints at most one segment, whatever the input was,
\* also when two render callbacks are pending.
C24_OnePaintPerFrame ==
  [][renderLoop => Len(raster') <= Len(raster) + 1]_vars

\* two render callbacks are pending on a stroke in progress (a second start
\* came without an end) and a frame has painted the last buffered segment once
C24_Witness ==
  /\ isDrawingRef
  /\ rafPending = 2
  /\ ~needsRedrawRef
  /\ Len(currentPointsRef) >= 2
  /\ Len(raster) = 1
  /\ raster[1].to = currentPointsRef[Len(currentPointsRef)]
  /\ pathsRef = <<>>

\* the segments of the buffered points, in arrival order
BufferSegments(pts) ==
  PathSegments([tool |-> toolRef, color |-> colorRef, size |-> sizeRef,
                points |-> pts], 2)

\* C25: within a stroke every buffered point is painted in arrival order: once
\* a frame has run on a stroke in progress, the raster ends with the ink of one
\* segment for every consecutive pair of buffered points, in order (also after
\* coalesced samples); a segment outside the canvas leaves no ink.
C25_EveryPointPainted ==
  [][(isDrawingRef /\ renderLoop /\ Len(currentPointsRef) >= 2)
       => \E segs \in Visible(BufferSegments(currentPointsRef),
                              totalHeight(extraHeight)) :
            LET n == Len(segs)
            IN /\ Len(raster') >= n
               /\ SubSeq(raster', Len(raster') - n + 1, Len(raster')) = segs]_vars

\* a step that changes the tool state of the canvas or of the host
ToolStateChanges ==
  \/ toolRef' # toolRef
  \/ colorRef' # colorRef
  \/ sizeRef' # sizeRef
  \/ toolState' # toolState

\* C28: a change of the tool state (a tool state pushed by the host, a
\* double-tap toggle) leaves every path of the Path Store unchanged.
C28_ToolChangeKeepsPaths ==
  [][ToolStateChanges => pathsRef' = pathsRef]_vars

\* a pen path is in the store, the host has pushed the marker since and a
\* double-tap has toggled the canvas to the eraser
C28_Witness ==
  /\ Len(pathsRef) >= 1
  /\ pathsRef[1].tool = "pen"
  /\ toolState.tool = "marker"
  /\ toolRef = "eraser"

\* C26: while the session is Idle a render-loop callback paints nothing (after
\* a stroke ended or was cancelled, until the next stroke starts), and whatever
\* changes the raster while Idle leaves the full replay of the Path Store.
C26_NoPaintWhileIdle ==
  /\ [][(~isDrawingRef /\ renderLoop) => raster' = raster]_vars
  /\ [][(~isDrawingRef /\ raster' # raster)
        => raster' \in ReplayOn(pathsRef', extraHeight')]_vars

\* a stroke has ended or was cancelled, and a callback requested during it is
\* still pending with the redraw flag set
C26_Witness ==
  /\ ~isDrawingRef
  /\ mounted
  /\ rafPending >= 1
  /\ needsRedrawRef
  /\ raster # <<>>

\* a touch or pointer event delivered to the canvas
InputEvent ==
  \/ \E id \in 1..MaxTouches, tt \in {"stylus", "direct"}, f \in {0, 5} :
       handleTouchStart(id, tt, f, 1, 0, 0)
  \/ handleTouchMove(<<getPointFromTouch(1, 0, 0, 0)>>)
  \/ \E id \in touchIds : handleTouchEnd(id) \/ handleTouchCancel(id)
  \/ \E pr \in BOOLEAN : handlePointerDown("pen", pr, 1, 0, 0, 0)
  \/ handlePointerUp

\* the first sample of a stroke: one finger put down on the idle canvas
FirstSample ==
  /\ ~isDrawingRef
  /\ touchIds = {}
  /\ handleTouchStart(1, "direct", 0, 1, 0, 0)

C27_PassiveIgnoresInput ==
  [][(~isActive /\ ~isDrawingRef /\ InputEvent)
       => /\ ~isDrawingRef'
          /\ pathsRef' = pathsRef
          /\ queue' = queue
          /\ db' = db]_vars

C27_ActiveStarts ==
  [][(isActive /\ FirstSample) => isDrawingRef']_vars

\* C27: while the surface is passive no touch or pointer event starts a
\* stroke, changes the Path Store or causes a save; while it is active the
\* first sample of a stroke moves the session from Idle to Drawing.
C27_PassiveModeInert ==
  /\ C27_PassiveIgnoresInput
  /\ C27_ActiveStarts

\* a stroke in progress ends
StrokeEnds == isDrawingRef /\ ~isDrawingRef'

AppendedOne ==
  /\ Len(pathsRef') = Len(pathsRef) + 1
  /\ SubSeq(pathsRef', 1, Len(pathsRef)) = pathsRef

RemovedLast ==
  /\ pathsRef # <<>>
  /\ pathsRef' = SubSeq(pathsRef, 1, Len(pathsRef) - 1)

\* C29: the Path Store changes only by an append of one path at its end (a
\* stroke completes), by the removal of its last path (undo), by emptying
\* (clear) or by replacement with the parsed string of a load, of the surface
\* or of an activation; the paths already there keep their order and their
\* contents.
C29_StoreWriters ==
  [][pathsRef' # pathsRef
       => IF StrokeEnds THEN AppendedOne
          ELSE IF Undo THEN RemovedLast
          ELSE \/ pathsRef' = <<>>
               \/ pathsRef' = JSONparse(savedPaths')
               \/ /\ activationFrame
                  /\ pathsRef' = loadFrames[Len(loadFrames)].paths]_vars

\* two different paths in completion order in the store
C29_Witness ==
  /\ Len(pathsRef) = 2
  /\ pathsRef[1] # pathsRef[2]
  /\ queue = <<>>
  /\ db[annotationKey].present
  /\ db[annotationKey].data = JSONstringify(pathsRef)

\* the canvas of a surface that stays mounted gets another height or width
Resized ==
  \/ mounted /\ mounted' /\ extraHeight' # extraHeight
  \/ ResizeObserved

\* the step calls clear() before its render: a load that finds no record, or
\* clear-all
LoadClears ==
  \/ \E i \in 1..Len(queue) : LoadReturn(i) /\ ~LookupResult(queue[i]).present
  \/ ClearAll

\* C30: whenever the height or the width of the canvas changes, the raster
\* afterwards is a full replay of the Path Store on the new size; a stroke in
\* progress stays in progress, and the buffered points are after the step what
\* they were when the resize ran: those from before the step, or none when
\* the step has called clear() first, which empties the buffer of a mounted
\* canvas with or without a resize.
C30_ReplayAfterResize ==
  /\ [][Resized => (raster' \in ReplayOn(pathsRef', extraHeight')
                     /\ isDrawingRef' = isDrawingRef)]_vars
  /\ [][Resized => currentPointsRef' = IF LoadClears THEN <<>>
                                       ELSE currentPointsRef]_vars
  /\ [][(LoadClears /\ mounted) => currentPointsRef' = <<>>]_vars

\* a stroke in progress over a committed path whose canvas has been resized:
\* the resize cancelled the pending frame and left the replay of the store
C30_Witness ==
  /\ isDrawingRef
  /\ Len(currentPointsRef) = 2
  /\ extraHeight # 0
  /\ ~rafIdRef
  /\ pathsRef # <<>>
  /\ raster \in ReplayOn(pathsRef, extraHeight)

\* C31: loading never writes: while the reader only moves between surfaces, no
\* record appears for a key that had none and no record changes its path data
\* or its height.
C31_LoadNeverWrites ==
  [][\A id \in Ids : db'[id] = db[id]]_vars

\* the paths of a stored record
RecordPaths(r) ==
  IF r.present /\ Truthy(r.data) /\ ParsesToArray(r.data)
  THEN JSONparse(r.data)
  ELSE <<>>

\* the path of the record stored under gen:1:chinese
StoredPath == JSONparse(StoredRecord.data)[1]

\* C32: a record written under a key holds only paths drawn while that key was
\* current or loaded from its own record, and a height set or loaded for that
\* key: with a record under gen:1:chinese only, and no stroke that repeats its
\* path, the record under gen:2:chinese never holds that path nor its height.
C32_RecordsOwnPaths ==
  LET r == db["gen:2:chinese"]
  IN /\ \A i \in 1..Len(RecordPaths(r)) : RecordPaths(r)[i] # StoredPath
     /\ r.present => r.height # StoredRecord.height

\* what getAnnotation finds for key k in the present store
Found(k) == IF db[k].present THEN db[k] ELSE db[OldId(k)]

\* C33: once every load in flight has returned, the surface holds what the
\* store holds for the current key: its string, its height and, on a mounted
\* canvas, its paths; a result for a key that is no longer current is not
\* applied.
C33_CurrentKeyWins ==
  queue = <<>>
    => LET r == Found(annotationKey)
       IN /\ savedPaths = r.data
          /\ extraHeight = r.height
          /\ mounted => pathsRef = RecordPaths(r)

\* C34: a load that fails in the store never causes a persisted record to be
\* overwritten or lost: while the user does nothing but open the surface,
\* every record keeps its path data and its height.
C34_FailedLoadKeepsRecord ==
  [][\A id \in Ids : db[id].present => db'[id] = db[id]]_vars

\* what a record gives a load: its paths and its height
LoadYieldsNothing(r) == RecordPaths(r) = <<>> /\ r.height = 0

\* C35: when the delete of a confirmed clear-all has settled and no store
\* operation is pending, a load of that key finds nothing to show: no paths
\* and height 0, whatever the store held before.
C35_ClearAllIsFinal ==
  [][\A i \in 1..Len(queue) :
       ((ApplyDelete(i) \/ RejectDelete(i)) /\ queue' = <<>>)
         => LET k == queue[i].key
            IN LoadYieldsNothing(IF db'[k].present THEN db'[k]
                                 ELSE db'[OldId(k)])]_vars

\* C36: at the moment a stroke is committed, the raster the incremental paints
\* have built up shows the segments a full replay of the Path Store with the
\* new path paints, with the same tool, color and size.
C36_IncrementalEqualsReplay ==
  [][StrokeCompleted => raster \in ReplayOn(pathsRef', extraHeight)]_vars

\* the surface is active and the session Idle
ActiveIdle == isActive /\ mounted /\ ~isDrawingRef

\* C37 as stated: whenever the surface is active and the session Idle, the
\* tool, color and size of the next stroke are the host's Tool State.
C37_EngineFollowsHost ==
  ActiveIdle => /\ toolRef = toolState.tool
                /\ colorRef = toolState.color
                /\ sizeRef = toolState.size

\* a double-tap of a stylus toggles the tool and leaves the host's state alone
DoubleTapToggles ==
  /\ stylus' # stylus /\ stylus'.toggled
  /\ toolRef' = IF toolRef = "eraser" THEN "pen" ELSE "eraser"
  /\ toolState' = toolState

\* C37 amended: whenever the surface is active and the session Idle, color and
\* size of the next stroke are the host's; the tool is the host's too unless a
\* double-tap has toggled it since the last push: a step after which the tool
\* differs from the host's is a double-tap toggle or found it so.
C37_EngineFollowsHostAmended ==
  /\ [](ActiveIdle => (colorRef = toolState.color /\ sizeRef = toolState.size))
  /\ [][(ActiveIdle' /\ toolRef' # toolState'.tool)
          => \/ DoubleTapToggles
             \/ (toolRef' = toolRef /\ toolState' = toolState)]_vars

\* the host has pushed the marker and a double-tap has toggled to the eraser
\* since: color and size are the host's, the tool is not
C37_Witness ==
  /\ ActiveIdle
  /\ toolState.tool = "marker"
  /\ toolRef = "eraser"
  /\ colorRef = toolState.color
  /\ sizeRef = toolState.size
  /\ stylus.toggled

\* a double-tap of a stylus switches the tool
DoubleTapStep ==
  /\ stylus' # stylus /\ stylus'.toggled
  /\ toolRef' # toolRef
  /\ toolState' = toolState

\* C38: two consecutive double-tap toggles with no push of the host in between
\* restore the tool that was current before the first one, for every starting
\* tool: a toggle that finds the tool toggled away from the host's (the second
\* of the two) sets it to the host's again.
C38_ToggleTwiceRestores ==
  [][(DoubleTapStep /\ toolRef # toolState.tool)
       => toolRef' = toolState.tool]_vars

\* C39: once every touch has ended or was cancelled and every pending timer
\* has fired, the touch-in-use flag is false, so that the pointer channel is
\* open again.
C39_TouchFlagReleased ==
  (mounted /\ touchIds = {} /\ timers = EmptyBag) => ~usingTouchRef

====
